---- MODULE Spec2Model ----
(***************************************************************************)
(* Saraswati: the note/version lifecycle (NotesService) and the review     *)
(* state machine (ReviewsService) over the in-memory repository.           *)
(*                                                                         *)
(* Every service method is one action; a call that raises leaves the       *)
(* store as the code leaves it at the raise (a handler that has already    *)
(* written keeps its writes); what a call returns is the value of its      *)
(* `_result` operator in the state it is made in.                          *)
(*                                                                         *)
(* Free text that no branch of the workflow reads (titles, descriptions,   *)
(* comments, timestamps, embedding vectors) is left out; a version's       *)
(* payload is its `content`.                                               *)
(***************************************************************************)
EXTENDS Integers, Sequences, FiniteSets, TLC

\* ---- bounds of the model: the rows of each kind that are ever created
\* (MaxEvents counts the events of all reviews together)
MaxNotes == 1
MaxVersions == 2
MaxReviews == 2
MaxEvents == 4
\* the versions ever created when only the note lifecycle runs
MaxDrafts == 3
\* votes cast on one note in the specification of the vote counters
MaxVotes == 4
\* vote_note calls in the specification of concurrent votes
MaxCalls == 3
MaxCandidates == 3
MaxSearchNotes == 2

\* ---- values
Users == {"alice", "bob"}
Contents == {"c1", "c2"}
NULL == "null"
NoId == 0

DRAFT == "draft"
NEEDS_REVIEW == "needs_review"
APPROVED == "approved"
NoteState == {DRAFT, NEEDS_REVIEW, APPROVED}

OPEN == "open"
CHANGES_REQUESTED == "changes_requested"
MERGED == "merged"
CLOSED == "closed"
ReviewStatus == {OPEN, CHANGES_REQUESTED, MERGED, CLOSED}

COMMENTED == "commented"
ReviewDecision == {APPROVED, CHANGES_REQUESTED, COMMENTED}

SUBMITTED == "submitted"
COMMENT == "comment"
REOPENED == "reopened"
UPDATED == "updated"
ReviewEventType == {SUBMITTED, COMMENT, APPROVED, CHANGES_REQUESTED, MERGED, CLOSED, REOPENED, UPDATED}

\* ---- results of a call: success or the HTTP status of the HTTPException raised
OK == "ok"
HTTP_400_BAD_REQUEST == "400"
HTTP_403_FORBIDDEN == "403"
HTTP_404_NOT_FOUND == "404"
HTTP_409_CONFLICT == "409"

\* the repositories: InMemoryNotesRepository, MongoNotesRepository, ElasticsearchNotesRepository
MEMORY == "memory"
MONGO == "mongo"
ELASTIC == "elastic"
Stores == {MEMORY, MONGO, ELASTIC}

\* ---- state
\* notes:    _notes[note_id].note        (note id -> Note)
\* versions: _notes[note_id].versions    (version id -> NoteVersion, all notes)
\* reviews:  _reviews                    (review id -> Review)
\* events:   _review_events              (review id -> list of ReviewEvent)
\* version_log: the versions created so far, by id, each with its note and the index it was
\*              given; its length is the id counter (a discarded id is not handed out again)
\* Ids are opaque strings to the services; each kind of row is numbered on its own.
\* store: the repository the service was built over; calls: the vote_note calls begun so far,
\* each with its position and what it read
\* matches: what the repository answers to one hybrid_search call (its candidate lists and the
\*          candidate_limit of the call); ordered: what hybrid_search returned, NULL before the call
\* found: what the last NotesService.search returned, the page and the total; empty before the first
\* hooks: settings.webhooks, the observers configured; wrapped: the calls of operations wrapped by
\*        notify_observers, each with its position, what the operation gave and what the caller
\*        got; tasks: the _notify_all tasks handed to the event loop, each with its deliveries
\* indices_ready, indices_lock: the fields _indices_ready and _indices_lock (the caller holding
\*        the lock, NoCaller when it is free) of one ElasticsearchNotesRepository; indices: for
\*        each index of the cluster the callers whose create made it (none: it does not exist);
\*        ensuring: the _ensure_indices calls begun, each with its position
\* submits: the submit_version_for_review calls begun so far, each with its position and what
\*        it read
VARIABLES notes, versions, reviews, events, version_log, store, calls, matches, ordered, found, hooks, wrapped, tasks, indices_ready, indices_lock, indices, ensuring, submits

\* the variables of a search, which no workflow operation writes
searches == <<matches, ordered, found>>

\* the variables of the webhook notifications
observers == <<hooks, wrapped, tasks>>

\* the variables outside the in-memory workflow, which no workflow operation or search writes
\* the variables of the Elasticsearch index setup
elastic_setup == <<indices_ready, indices_lock, indices, ensuring>>

others == <<observers, elastic_setup, submits>>

vars == <<notes, versions, reviews, events, version_log, store, calls, matches, ordered, found, hooks, wrapped, tasks, indices_ready, indices_lock, indices, ensuring, submits>>

\* the ids handed out to versions so far
version_counter == Len(version_log)

\* ---- repository reads
Max(S) == CHOOSE x \in S : \A y \in S : y <= x

Min(S) == CHOOSE x \in S : \A y \in S : x <= y

note_versions(vs, note_id) == {v \in DOMAIN vs : vs[v].note_id = note_id}

highest_index(vs, S) == CHOOSE v \in S : \A w \in S : vs[w].version_index <= vs[v].version_index

\* the version of the note with the highest version_index, NoId when it has none
get_latest_version(vs, note_id) == LET S == note_versions(vs, note_id) IN IF S = {} THEN NoId ELSE highest_index(vs, S)

\* a faulty variant of get_drafts_by_note_ids: no draft is found
get_drafts_by_note_ids_none(vs, note_id) == NoId

\* the DRAFT version of the note with the highest version_index, NoId when it has none
get_drafts_by_note_ids(vs, note_id) == LET S == {v \in note_versions(vs, note_id) : vs[v].state = DRAFT} IN IF S = {} THEN NoId ELSE highest_index(vs, S)

\* a faulty variant of get_review_by_version: the lookup finds nothing
get_review_by_version_none(draft_version_id) == NoId

\* the first review (in insertion order) whose draft_version_id is the version
get_review_by_version(draft_version_id) == LET S == {r \in DOMAIN reviews : reviews[r].draft_version_id = draft_version_id} IN IF S = {} THEN NoId ELSE Min(S)

\* ---- repository writes, as values
new_note(author_id, version_id, title, tags) == [title |-> title, tags |-> tags, created_by |-> author_id, current_version_id |-> version_id, committed_by |-> NULL, deleted_at |-> NULL, deleted_by |-> NULL, upvotes |-> 0, downvotes |-> 0]

new_version(note_id, version_index, author_id, content, title, tags) == [note_id |-> note_id, version_index |-> version_index, title |-> title, content |-> content, tags |-> tags, state |-> DRAFT, created_by |-> author_id, submitted_by |-> NULL, committed_by |-> NULL, reviewed_by |-> NULL]

next_index(vs, note_id) == Max({vs[v].version_index : v \in note_versions(vs, note_id)} \cup {-1}) + 1

set_note_current_version(ns, note_id, version_id, committed_by) == [ns EXCEPT ![note_id].current_version_id = version_id, ![note_id].committed_by = committed_by]

delete_version(vs, version_id) == [v \in DOMAIN vs \ {version_id} |-> vs[v]]

\* nothing is configured to observe and no wrapped call has begun
NoCaller == 0

\* _notes_index, _versions_index, _reviews_index, _review_events_index, in the order they are set up
IndexNames == <<"notes", "versions", "reviews", "review_events">>

\* a repository just constructed over a cluster without the indices
InitElastic ==
    /\ indices_ready = FALSE
    /\ indices_lock = NoCaller
    /\ indices = [k \in DOMAIN IndexNames |-> {}]
    /\ ensuring = <<>>

InitOthers ==
    /\ hooks = <<>>
    /\ wrapped = <<>>
    /\ tasks = <<>>
    /\ InitElastic
    /\ submits = <<>>

Init ==
    /\ notes = <<>>
    /\ versions = <<>>
    /\ reviews = <<>>
    /\ events = <<>>
    /\ version_log = <<>>
    /\ store = MEMORY
    /\ calls = <<>>
    /\ matches = NULL
    /\ ordered = NULL
    /\ found = [page_slice |-> <<>>, total |-> 0]
    /\ InitOthers

\* a call that raises before it writes leaves everything as it was
Raised == UNCHANGED vars

\* ======================= NotesService =======================

create_note(author_id, title, content, tags) ==
    LET note_id == Cardinality(DOMAIN notes) + 1
        version_id == version_counter + 1
    IN  /\ notes' = notes @@ (note_id :> new_note(author_id, version_id, title, tags))
        /\ versions' = versions @@ (version_id :> new_version(note_id, 0, author_id, content, title, tags))
        /\ version_log' = Append(version_log, [note_id |-> note_id, version_index |-> 0])
        /\ UNCHANGED <<searches, others, store, calls, reviews, events>>

\* a faulty variant of update_draft_result: anyone may edit a draft
update_draft_result_anyone(version_id, author_id) ==
    IF version_id \notin DOMAIN versions THEN HTTP_404_NOT_FOUND
    ELSE IF versions[version_id].state \notin {DRAFT, NEEDS_REVIEW} THEN HTTP_400_BAD_REQUEST
    ELSE OK

update_draft_result(version_id, author_id) ==
    IF version_id \notin DOMAIN versions THEN HTTP_404_NOT_FOUND
    ELSE IF versions[version_id].state \notin {DRAFT, NEEDS_REVIEW} THEN HTTP_400_BAD_REQUEST
    ELSE IF versions[version_id].state = DRAFT /\ versions[version_id].created_by # author_id THEN HTTP_403_FORBIDDEN
    ELSE OK

\* updated_fields of update_draft applied to the version
updated_draft(version, title, content, tags) == [version EXCEPT !.title = IF title # NULL THEN title ELSE @, !.content = IF content # NULL THEN content ELSE @, !.tags = IF tags # NULL THEN tags ELSE @]

update_draft(version_id, author_id, title, content, tags) ==
    IF update_draft_result(version_id, author_id) # OK THEN Raised
    ELSE /\ versions' = [versions EXCEPT ![version_id] = updated_draft(@, title, content, tags)]
         /\ UNCHANGED <<searches, others, store, calls, notes, reviews, events, version_log>>

submit_for_review_result(version_id) ==
    IF version_id \notin DOMAIN versions THEN HTTP_404_NOT_FOUND
    ELSE IF versions[version_id].state # DRAFT THEN HTTP_400_BAD_REQUEST
    ELSE OK

submitted_versions(vs, version_id, submitter_id) == [vs EXCEPT ![version_id].state = NEEDS_REVIEW, ![version_id].submitted_by = submitter_id]

submit_for_review(version_id, submitter_id) ==
    IF submit_for_review_result(version_id) # OK THEN Raised
    ELSE /\ versions' = submitted_versions(versions, version_id, submitter_id)
         /\ UNCHANGED <<searches, others, store, calls, notes, reviews, events, version_log>>

approve_version_result(version_id) ==
    IF version_id \notin DOMAIN versions THEN HTTP_404_NOT_FOUND
    ELSE IF versions[version_id].state # NEEDS_REVIEW THEN HTTP_400_BAD_REQUEST
    ELSE OK

approved_versions(vs, version_id, reviewer_id) == [vs EXCEPT ![version_id].state = APPROVED, ![version_id].committed_by = reviewer_id, ![version_id].reviewed_by = reviewer_id]

\* a faulty variant of approved_notes: the version is approved, the note's pointer stays
approved_notes_unmoved(ns, version_id, reviewer_id) == ns

approved_notes(ns, version_id, reviewer_id) == set_note_current_version(ns, versions[version_id].note_id, version_id, reviewer_id)

approve_version(version_id, reviewer_id) ==
    IF approve_version_result(version_id) # OK THEN Raised
    ELSE /\ versions' = approved_versions(versions, version_id, reviewer_id)
         /\ notes' = approved_notes(notes, version_id, reviewer_id)
         /\ UNCHANGED <<searches, others, store, calls, reviews, events, version_log>>

create_draft_from_current_result(note_id) ==
    IF note_id \notin DOMAIN notes THEN HTTP_404_NOT_FOUND
    ELSE IF notes[note_id].current_version_id = NoId THEN HTTP_400_BAD_REQUEST
    ELSE IF notes[note_id].current_version_id \notin DOMAIN versions THEN HTTP_404_NOT_FOUND
    ELSE OK

\* the version create_draft_from_current returns: the note's draft, or a new row
draft_from_current(note_id) == IF get_drafts_by_note_ids(versions, note_id) # NoId THEN get_drafts_by_note_ids(versions, note_id) ELSE version_counter + 1

\* Python's `x or y` for an optional string or list x: y when x is None or empty
or_else(x, y) == IF x \in {NULL, "", "[]"} THEN y ELSE x

\* the versions after create_draft_from_current: the note's draft updated in place, or a new
\* row branched from the current version
drafted_versions(note_id, author_id, updated_content, title, tags) ==
    LET base == versions[notes[note_id].current_version_id]
        payload_title == or_else(title, base.title)
        payload_tags == or_else(tags, base.tags)
    IN  IF draft_from_current(note_id) \in DOMAIN versions
        THEN [versions EXCEPT ![draft_from_current(note_id)].title = payload_title, ![draft_from_current(note_id)].content = updated_content, ![draft_from_current(note_id)].tags = payload_tags]
        ELSE versions @@ (draft_from_current(note_id) :> new_version(note_id, next_index(versions, note_id), author_id, updated_content, or_else(payload_title, base.title), or_else(payload_tags, base.tags)))

create_draft_from_current(note_id, author_id, updated_content, title, tags) ==
    IF create_draft_from_current_result(note_id) # OK THEN Raised
    ELSE /\ versions' = drafted_versions(note_id, author_id, updated_content, title, tags)
         /\ version_log' = IF draft_from_current(note_id) \in DOMAIN versions THEN version_log ELSE Append(version_log, [note_id |-> note_id, version_index |-> next_index(versions, note_id)])
         /\ UNCHANGED <<searches, others, store, calls, notes, reviews, events>>

discard_draft_result(note_id, author_id) ==
    IF note_id \notin DOMAIN notes THEN HTTP_404_NOT_FOUND
    ELSE IF get_drafts_by_note_ids(versions, note_id) = NoId THEN HTTP_404_NOT_FOUND
    ELSE IF versions[get_drafts_by_note_ids(versions, note_id)].created_by # author_id THEN HTTP_403_FORBIDDEN
    ELSE OK

\* the notes after the draft row is gone: the pointer moves only when it named the draft
discard_replacement(note_id, draft) ==
    LET remaining == delete_version(versions, draft)
        latest == get_latest_version(remaining, note_id)
    IN  IF notes[note_id].current_version_id # draft THEN notes
        ELSE IF latest # NoId /\ remaining[latest].state = APPROVED THEN set_note_current_version(notes, note_id, latest, remaining[latest].committed_by)
        ELSE set_note_current_version(notes, note_id, NoId, NULL)

discard_draft(note_id, author_id) ==
    LET draft == get_drafts_by_note_ids(versions, note_id)
    IN  IF discard_draft_result(note_id, author_id) # OK THEN Raised
        ELSE /\ versions' = delete_version(versions, draft)
             /\ notes' = discard_replacement(note_id, draft)
             /\ UNCHANGED <<searches, others, store, calls, reviews, events, version_log>>

\* ---- votes

\* a faulty variant of update_vote_counts: both counters move on every vote
update_vote_counts_both(ns, note_id, up_delta, down_delta) == [ns EXCEPT ![note_id].upvotes = Max({0, @ + up_delta + down_delta}), ![note_id].downvotes = Max({0, @ + up_delta + down_delta})]

\* InMemoryNotesRepository.update_vote_counts on an existing note, as a value
update_vote_counts(ns, note_id, up_delta, down_delta) == [ns EXCEPT ![note_id].upvotes = Max({0, @ + up_delta}), ![note_id].downvotes = Max({0, @ + down_delta})]

\* the current version when it exists, else the note's latest version, NoId when it has none
select_display_version(ns, note_id) == IF ns[note_id].current_version_id \in DOMAIN versions THEN ns[note_id].current_version_id ELSE get_latest_version(versions, note_id)

\* the last check comes after the counters were written
vote_note_result(note_id, action) ==
    IF action \notin {"upvote", "downvote"} THEN HTTP_400_BAD_REQUEST
    ELSE IF note_id \notin DOMAIN notes THEN HTTP_404_NOT_FOUND
    ELSE IF select_display_version(notes, note_id) = NoId THEN HTTP_404_NOT_FOUND
    ELSE OK

vote_note(note_id, action) ==
    IF action \notin {"upvote", "downvote"} \/ note_id \notin DOMAIN notes THEN Raised
    ELSE /\ notes' = update_vote_counts(notes, note_id, IF action = "upvote" THEN 1 ELSE 0, IF action = "downvote" THEN 1 ELSE 0)
         /\ UNCHANGED <<searches, others, store, calls, versions, reviews, events, version_log>>

\* ---- vote_note calls that overlap: a call gives way at each await of its repository

up_delta(action) == IF action = "upvote" THEN 1 ELSE 0

down_delta(action) == IF action = "downvote" THEN 1 ELSE 0

new_call(note_id, action, pc) == [note_id |-> note_id, action |-> action, pc |-> pc, upvotes |-> notes[note_id].upvotes, downvotes |-> notes[note_id].downvotes]

\* what vote_note does after update_vote_counts returned a note
voted(ns, note_id) == IF select_display_version(ns, note_id) = NoId THEN HTTP_404_NOT_FOUND ELSE OK

\* vote_note up to the first await that lets another call run: the in-memory repository has
\* none inside update_vote_counts; the Mongo repository awaits get_note and then update_one;
\* the Elasticsearch update reads the document and then indexes it under a version check
vote_note_begin(note_id, action) ==
    IF action \notin {"upvote", "downvote"} \/ note_id \notin DOMAIN notes THEN Raised
    ELSE IF store = MEMORY
         THEN /\ notes' = update_vote_counts(notes, note_id, up_delta(action), down_delta(action))
              /\ calls' = Append(calls, new_call(note_id, action, voted(notes, note_id)))
              /\ UNCHANGED <<searches, others, store, versions, reviews, events, version_log>>
         ELSE /\ calls' = Append(calls, new_call(note_id, action, "read"))
              /\ UNCHANGED <<searches, others, store, notes, versions, reviews, events, version_log>>

\* update_one with $set of the counters computed from the note read before
mongo_update_one(ns, call) == [ns EXCEPT ![call.note_id].upvotes = Max({0, call.upvotes + up_delta(call.action)}), ![call.note_id].downvotes = Max({0, call.downvotes + down_delta(call.action)})]

\* the document was written since the update read it: version conflict, no retry
elastic_conflict(ns, call) == ns[call.note_id].upvotes # call.upvotes \/ ns[call.note_id].downvotes # call.downvotes

\* the rest of a call that has read the note
vote_note_finish(i) ==
    IF i \notin DOMAIN calls \/ calls[i].pc # "read" THEN Raised
    ELSE IF store = MONGO
         THEN /\ notes' = mongo_update_one(notes, calls[i])
              /\ calls' = [calls EXCEPT ![i].pc = voted(notes, calls[i].note_id)]
              /\ UNCHANGED <<searches, others, store, versions, reviews, events, version_log>>
         ELSE IF elastic_conflict(notes, calls[i])
         THEN /\ calls' = [calls EXCEPT ![i].pc = HTTP_409_CONFLICT]
              /\ UNCHANGED <<searches, others, store, notes, versions, reviews, events, version_log>>
         ELSE /\ notes' = update_vote_counts(notes, calls[i].note_id, up_delta(calls[i].action), down_delta(calls[i].action))
              /\ calls' = [calls EXCEPT ![i].pc = voted(notes, calls[i].note_id)]
              /\ UNCHANGED <<searches, others, store, versions, reviews, events, version_log>>

\* ======================= ReviewsService =======================

\* str.strip() on the names used here
strip(s) == CASE s = " bob" -> "bob" [] s = " c2 " -> "c2" [] s = " " -> "" [] OTHER -> s

\* list(dict.fromkeys([rid.strip() for rid in reviewer_ids if rid.strip()]))
RECURSIVE normalized_reviewers(_)
normalized_reviewers(ids) ==
    IF ids = <<>> THEN <<>>
    ELSE LET front == normalized_reviewers(SubSeq(ids, 1, Len(ids) - 1))
             x == strip(ids[Len(ids)])
         IN  IF x = "" \/ (\E i \in 1..Len(front) : front[i] = x) THEN front ELSE Append(front, x)

new_review(note_id, draft_version_id, base_version_id, title, created_by, reviewer_ids, review_type) == [note_id |-> note_id, draft_version_id |-> draft_version_id, base_version_id |-> base_version_id, title |-> title, created_by |-> created_by, reviewer_ids |-> reviewer_ids, type |-> review_type, status |-> OPEN, review_decisions |-> <<>>, merge_version_id |-> NoId, merged_by |-> NULL]

\* a ReviewEvent, by the one field a timeline is read for
new_event(event_type, author_id) == [event_type |-> event_type]

add_review_event(es, review_id, event_type, author_id) == [es EXCEPT ![review_id] = Append(@, new_event(event_type, author_id))]

\* a faulty variant of record_decision: the decision is dropped
record_decision_dropped(decisions, reviewer_id, decision) == decisions

\* dict(review.review_decisions) with the reviewer's entry overwritten
record_decision(decisions, reviewer_id, decision) == (reviewer_id :> decision) @@ decisions

\* a faulty variant of trimmed_decisions: every decision is kept
trimmed_decisions_all(decisions) == decisions

\* the decisions that are kept when a version is submitted again
trimmed_decisions(decisions) == [u \in {x \in DOMAIN decisions : decisions[x] # CHANGES_REQUESTED} |-> decisions[u]]

\* a faulty variant of retained_decisions: every decision is kept
retained_decisions_all(decisions, reviewers) == decisions

\* the decisions that are kept when the reviewer list becomes `reviewers`
retained_decisions(decisions, reviewers) == [u \in {x \in DOMAIN decisions : \E i \in 1..Len(reviewers) : reviewers[i] = x} |-> decisions[u]]

\* a faulty variant of reverted_versions: the submitter is cleared, the state stays
reverted_versions_kept(vs, version_id) == IF version_id \in DOMAIN vs THEN [vs EXCEPT ![version_id].submitted_by = NULL] ELSE vs

\* update_version(id, {state: DRAFT, submitted_by: None}); a missing row is left missing
reverted_versions(vs, version_id) == IF version_id \in DOMAIN vs THEN [vs EXCEPT ![version_id].state = DRAFT, ![version_id].submitted_by = NULL] ELSE vs

\* a faulty variant of reopened_versions: the actor is not recorded as submitter
reopened_versions_unsigned(vs, version_id, actor_id) == IF version_id \in DOMAIN vs THEN [vs EXCEPT ![version_id].state = NEEDS_REVIEW] ELSE vs

\* update_version(id, {state: NEEDS_REVIEW, submitted_by: actor}); a missing row is left missing
reopened_versions(vs, version_id, actor_id) == IF version_id \in DOMAIN vs THEN [vs EXCEPT ![version_id].state = NEEDS_REVIEW, ![version_id].submitted_by = actor_id] ELSE vs

submit_base_version_id(version_id) == LET current == notes[versions[version_id].note_id].current_version_id IN IF current # NoId /\ current # version_id THEN current ELSE NoId

resubmitted_review(review, title, base_version_id, reviewer_ids) == [review EXCEPT !.title = title, !.reviewer_ids = IF reviewer_ids # NULL THEN reviewer_ids ELSE @, !.status = OPEN, !.review_decisions = trimmed_decisions(@), !.base_version_id = base_version_id]

\* the review submit_version_for_review returns: the one the version has, or a new row
review_for_version(version_id) == IF get_review_by_version(version_id) # NoId THEN get_review_by_version(version_id) ELSE Cardinality(DOMAIN reviews) + 1

submit_version_for_review(version_id, submitter_id, reviewer_ids) ==
    LET review_id == review_for_version(version_id)
    IN  IF submit_for_review_result(version_id) # OK THEN Raised
        ELSE /\ versions' = submitted_versions(versions, version_id, submitter_id)
             /\ reviews' = IF review_id \in DOMAIN reviews THEN [reviews EXCEPT ![review_id] = resubmitted_review(@, versions[version_id].title, submit_base_version_id(version_id), reviewer_ids)]
                           ELSE reviews @@ (review_id :> new_review(versions[version_id].note_id, version_id, submit_base_version_id(version_id), versions[version_id].title, submitter_id, IF reviewer_ids # NULL THEN reviewer_ids ELSE <<>>, NULL))
             /\ events' = IF review_id \in DOMAIN reviews THEN add_review_event(events, review_id, SUBMITTED, submitter_id)
                          ELSE events @@ (review_id :> <<new_event(SUBMITTED, submitter_id)>>)
             /\ UNCHANGED <<searches, others, store, calls, notes, version_log>>

\* f"Delete: {note.title}" and f"Restore: {note.title}" on the titles notes are given here
special_title(review_type, title) ==
    CASE review_type = "deletion" /\ title = "t1" -> "Delete: t1"
      [] review_type = "deletion" /\ title = "t2" -> "Delete: t2"
      [] review_type = "restore" /\ title = "t1" -> "Restore: t1"
      [] review_type = "restore" /\ title = "t2" -> "Restore: t2"
      [] OTHER -> IF review_type = "deletion" THEN "Delete: " ELSE "Restore: "

request_special_result(note_id, review_type) ==
    IF note_id \notin DOMAIN notes THEN HTTP_404_NOT_FOUND
    ELSE IF review_type = "deletion" /\ notes[note_id].current_version_id = NoId THEN HTTP_400_BAD_REQUEST
    ELSE OK

\* request_note_deletion and request_note_restore: one body but for the guard and the type
request_special(note_id, requester_id, reviewer_ids, review_type) ==
    LET review_id == Cardinality(DOMAIN reviews) + 1
    IN  IF request_special_result(note_id, review_type) # OK THEN Raised
        ELSE /\ reviews' = reviews @@ (review_id :> new_review(note_id, NoId, notes[note_id].current_version_id, special_title(review_type, notes[note_id].title), requester_id, IF reviewer_ids # NULL THEN reviewer_ids ELSE <<>>, review_type))
             /\ events' = events @@ (review_id :> <<new_event(SUBMITTED, requester_id)>>)
             /\ UNCHANGED <<searches, others, store, calls, notes, versions, version_log>>

request_note_deletion(note_id, requester_id, reviewer_ids) == request_special(note_id, requester_id, reviewer_ids, "deletion")

request_note_restore(note_id, requester_id, reviewer_ids) == request_special(note_id, requester_id, reviewer_ids, "restore")

\* InMemoryNotesRepository.create_review called directly: a stored review of any type and title
create_review(note_id, draft_version_id, base_version_id, title, created_by, reviewer_ids, review_type) ==
    LET review_id == Cardinality(DOMAIN reviews) + 1
    IN  /\ reviews' = reviews @@ (review_id :> new_review(note_id, draft_version_id, base_version_id, title, created_by, IF or_else(reviewer_ids, NULL) # NULL THEN reviewer_ids ELSE <<>>, review_type))
        /\ events' = events @@ (review_id :> <<>>)
        /\ UNCHANGED <<searches, others, store, calls, notes, versions, version_log>>

comment_on_review_result(review_id, message) ==
    IF review_id \notin DOMAIN reviews THEN HTTP_404_NOT_FOUND
    ELSE IF reviews[review_id].status = MERGED /\ message = "" THEN HTTP_400_BAD_REQUEST
    ELSE OK

comment_on_review(review_id, author_id, message) ==
    IF comment_on_review_result(review_id, message) # OK THEN Raised
    ELSE /\ events' = add_review_event(events, review_id, COMMENT, author_id)
         /\ UNCHANGED <<searches, others, store, calls, notes, versions, reviews, version_log>>

\* a faulty variant of approve_review_result: the creator is not turned away
approve_review_result_open(review_id, reviewer_id) ==
    IF review_id \notin DOMAIN reviews THEN HTTP_404_NOT_FOUND
    ELSE IF reviews[review_id].status \in {MERGED, CLOSED} THEN HTTP_400_BAD_REQUEST
    ELSE OK

approve_review_result(review_id, reviewer_id) ==
    IF review_id \notin DOMAIN reviews THEN HTTP_404_NOT_FOUND
    ELSE IF reviews[review_id].status \in {MERGED, CLOSED} THEN HTTP_400_BAD_REQUEST
    ELSE IF reviews[review_id].created_by = reviewer_id THEN HTTP_403_FORBIDDEN
    ELSE OK

approve_review(review_id, reviewer_id) ==
    IF approve_review_result(review_id, reviewer_id) # OK THEN Raised
    ELSE /\ reviews' = [reviews EXCEPT ![review_id].review_decisions = record_decision(@, reviewer_id, APPROVED), ![review_id].status = OPEN]
         /\ events' = add_review_event(events, review_id, APPROVED, reviewer_id)
         /\ UNCHANGED <<searches, others, store, calls, notes, versions, version_log>>

\* a faulty variant of request_changes_result: a MERGED review is not refused
request_changes_result_merged(review_id) ==
    IF review_id \notin DOMAIN reviews THEN HTTP_404_NOT_FOUND
    ELSE IF reviews[review_id].draft_version_id # NoId /\ reviews[review_id].draft_version_id \notin DOMAIN versions THEN HTTP_404_NOT_FOUND
    ELSE OK

request_changes_result(review_id) ==
    IF review_id \notin DOMAIN reviews THEN HTTP_404_NOT_FOUND
    ELSE IF reviews[review_id].status = MERGED THEN HTTP_400_BAD_REQUEST
    ELSE IF reviews[review_id].draft_version_id # NoId /\ reviews[review_id].draft_version_id \notin DOMAIN versions THEN HTTP_404_NOT_FOUND
    ELSE OK

request_changes(review_id, reviewer_id) ==
    IF request_changes_result(review_id) # OK THEN Raised
    ELSE /\ reviews' = [reviews EXCEPT ![review_id].review_decisions = record_decision(@, reviewer_id, CHANGES_REQUESTED), ![review_id].status = CHANGES_REQUESTED]
         /\ versions' = IF reviews[review_id].draft_version_id # NoId THEN reverted_versions(versions, reviews[review_id].draft_version_id) ELSE versions
         /\ events' = add_review_event(events, review_id, CHANGES_REQUESTED, reviewer_id)
         /\ UNCHANGED <<searches, others, store, calls, notes, version_log>>

\* a faulty variant of close_review_result: the status is not looked at
close_review_result_any(review_id) == IF review_id \in DOMAIN reviews THEN OK ELSE HTTP_404_NOT_FOUND

close_review_result(review_id) ==
    IF review_id \notin DOMAIN reviews THEN HTTP_404_NOT_FOUND
    ELSE IF reviews[review_id].status = MERGED THEN HTTP_400_BAD_REQUEST
    ELSE OK

close_review(review_id, actor_id) ==
    IF close_review_result(review_id) # OK THEN Raised
    ELSE /\ versions' = IF reviews[review_id].draft_version_id # NoId THEN reverted_versions(versions, reviews[review_id].draft_version_id) ELSE versions
         /\ reviews' = [reviews EXCEPT ![review_id].status = CLOSED]
         /\ events' = add_review_event(events, review_id, CLOSED, actor_id)
         /\ UNCHANGED <<searches, others, store, calls, notes, version_log>>

\* a faulty variant of reopen_review_result: the status is not looked at
reopen_review_result_any(review_id) == IF review_id \notin DOMAIN reviews THEN HTTP_404_NOT_FOUND ELSE OK

reopen_review_result(review_id) ==
    IF review_id \notin DOMAIN reviews THEN HTTP_404_NOT_FOUND
    ELSE IF reviews[review_id].status \notin {CLOSED, CHANGES_REQUESTED} THEN HTTP_400_BAD_REQUEST
    ELSE OK

reopen_review(review_id, actor_id) ==
    IF reopen_review_result(review_id) # OK THEN Raised
    ELSE /\ versions' = IF reviews[review_id].draft_version_id # NoId THEN reopened_versions(versions, reviews[review_id].draft_version_id, actor_id) ELSE versions
         /\ reviews' = [reviews EXCEPT ![review_id].status = OPEN]
         /\ events' = add_review_event(events, review_id, REOPENED, actor_id)
         /\ UNCHANGED <<searches, others, store, calls, notes, version_log>>

\* {value for value in allowed_actors if value}
allowed_actors(review_id) ==
    LET review == reviews[review_id]
        version == versions[review.draft_version_id]
    IN  (IF review.draft_version_id # NoId THEN {review.created_by, version.created_by, version.submitted_by} ELSE {review.created_by}) \ {NULL}

update_review_result(review_id, actor_id, reviewer_ids) ==
    IF review_id \notin DOMAIN reviews THEN HTTP_404_NOT_FOUND
    ELSE IF reviews[review_id].status \in {MERGED, CLOSED} THEN HTTP_400_BAD_REQUEST
    ELSE IF reviews[review_id].draft_version_id # NoId /\ reviews[review_id].draft_version_id \notin DOMAIN versions THEN HTTP_404_NOT_FOUND
    ELSE IF actor_id \notin allowed_actors(review_id) THEN HTTP_403_FORBIDDEN
    ELSE IF reviewer_ids # NULL /\ normalized_reviewers(reviewer_ids) = <<>> THEN HTTP_400_BAD_REQUEST
    ELSE OK

\* `updates` is not empty: the reviewer list is given and differs from the stored one
has_updates(review_id, reviewer_ids) == reviewer_ids # NULL /\ normalized_reviewers(reviewer_ids) # reviews[review_id].reviewer_ids

\* the review as update_review leaves it: with `updates` applied when there are any
updated_review(review, review_id, reviewer_ids) == IF has_updates(review_id, reviewer_ids) THEN [review EXCEPT !.reviewer_ids = normalized_reviewers(reviewer_ids), !.review_decisions = retained_decisions(@, normalized_reviewers(reviewer_ids))] ELSE review

update_review(review_id, actor_id, reviewer_ids) ==
    IF update_review_result(review_id, actor_id, reviewer_ids) # OK THEN Raised
    ELSE /\ reviews' = [reviews EXCEPT ![review_id] = updated_review(@, review_id, reviewer_ids)]
         /\ events' = IF has_updates(review_id, reviewer_ids) THEN add_review_event(events, review_id, UPDATED, actor_id) ELSE events
         /\ UNCHANGED <<searches, others, store, calls, notes, versions, version_log>>

\* str.lower() on the types and titles used here
lower(s) ==
    CASE s = "Deletion" -> "deletion"
      [] s = "Delete: t1" -> "delete: t1"
      [] s = "Delete: t2" -> "delete: t2"
      [] s = "Delete: " -> "delete: "
      [] s = "Restore: t1" -> "restore: t1"
      [] s = "Restore: t2" -> "restore: t2"
      [] s = "Restore: " -> "restore: "
      [] s = "RESTORE: t1" -> "restore: t1"
      [] OTHER -> s

\* str.startswith() on the lower-cased titles used here
startswith(s, prefix) ==
    CASE prefix = "delete:" -> s \in {"delete: t1", "delete: t2", "delete: "}
      [] prefix = "restore:" -> s \in {"restore: t1", "restore: t2", "restore: "}
      [] OTHER -> FALSE

\* a faulty variant of rtype: the title decides even when the review has a type
rtype_by_title(review) ==
    IF startswith(lower(or_else(review.title, "")), "delete:") THEN "deletion"
    ELSE IF startswith(lower(or_else(review.title, "")), "restore:") THEN "restore"
    ELSE NULL

\* the explicit type, lower-cased; without one, what the title's prefix says
rtype(review) ==
    LET explicit == IF or_else(review.type, NULL) # NULL THEN lower(review.type) ELSE NULL
        title == lower(or_else(review.title, ""))
    IN  IF explicit \notin {NULL, ""} THEN explicit
        ELSE IF startswith(title, "delete:") THEN "deletion"
        ELSE IF startswith(title, "restore:") THEN "restore"
        ELSE explicit

\* a faulty variant of mark_note_deleted: the note is left as it was
mark_note_deleted_unmarked(ns, note_id, deleter_id) == ns

\* a faulty variant of mark_note_deleted: the deleted note also loses its current version
mark_note_deleted_unpublished(ns, note_id, deleter_id) == IF note_id \in DOMAIN ns THEN [ns EXCEPT ![note_id].deleted_at = "set", ![note_id].deleted_by = deleter_id, ![note_id].current_version_id = NoId] ELSE ns

\* a faulty variant of mark_note_deleted: the deleter is not recorded
mark_note_deleted_anonymous(ns, note_id, deleter_id) == IF note_id \in DOMAIN ns THEN [ns EXCEPT ![note_id].deleted_at = "set"] ELSE ns

mark_note_deleted(ns, note_id, deleter_id) == IF note_id \in DOMAIN ns THEN [ns EXCEPT ![note_id].deleted_at = "set", ![note_id].deleted_by = deleter_id] ELSE ns

\* a faulty variant of mark_note_restored: deleted_by is left as it is
mark_note_restored_half(ns, note_id, restorer_id) == IF note_id \in DOMAIN ns THEN [ns EXCEPT ![note_id].deleted_at = NULL] ELSE ns

mark_note_restored(ns, note_id, restorer_id) == IF note_id \in DOMAIN ns THEN [ns EXCEPT ![note_id].deleted_at = NULL, ![note_id].deleted_by = NULL] ELSE ns

merge_is_special(review_id) == reviews[review_id].draft_version_id = NoId

\* the checks merge_review makes before it writes anything
merge_review_precheck(review_id, reviewer_id) ==
    IF review_id \notin DOMAIN reviews THEN HTTP_404_NOT_FOUND
    ELSE IF reviews[review_id].status = MERGED THEN HTTP_400_BAD_REQUEST
    ELSE IF reviews[review_id].created_by = reviewer_id THEN HTTP_403_FORBIDDEN
    ELSE IF merge_is_special(review_id) THEN (IF rtype(reviews[review_id]) \in {"deletion", "restore"} THEN OK ELSE HTTP_400_BAD_REQUEST)
    ELSE approve_version_result(reviews[review_id].draft_version_id)

\* what merge_review returns: a special review is merged before its base version is looked up
merge_review_result(review_id, reviewer_id) ==
    IF merge_review_precheck(review_id, reviewer_id) = OK /\ merge_is_special(review_id) /\ reviews[review_id].base_version_id \notin DOMAIN versions THEN HTTP_404_NOT_FOUND
    ELSE merge_review_precheck(review_id, reviewer_id)

\* a faulty variant of merged_review: the merged version is not recorded
merged_review_unrecorded(review, reviewer_id) == [review EXCEPT !.status = MERGED, !.merged_by = reviewer_id, !.merge_version_id = NoId]

merged_review(review, reviewer_id) == [review EXCEPT !.status = MERGED, !.merged_by = reviewer_id, !.merge_version_id = review.draft_version_id]

merge_review(review_id, reviewer_id) ==
    LET review == reviews[review_id]
        special == merge_is_special(review_id)
    IN  IF merge_review_precheck(review_id, reviewer_id) # OK THEN Raised
        ELSE /\ notes' = IF ~special THEN approved_notes(notes, review.draft_version_id, reviewer_id)
                         ELSE IF rtype(review) = "deletion" THEN mark_note_deleted(notes, review.note_id, reviewer_id)
                         ELSE mark_note_restored(notes, review.note_id, reviewer_id)
             /\ versions' = IF ~special THEN approved_versions(versions, review.draft_version_id, reviewer_id) ELSE versions
             /\ reviews' = [reviews EXCEPT ![review_id] = merged_review(@, reviewer_id)]
             /\ events' = add_review_event(events, review_id, MERGED, reviewer_id)
             /\ UNCHANGED <<searches, others, store, calls, version_log>>

\* ======================= search =======================

\* 1.0 in the unit scores are counted in: every rank score of CandidateLimits is a whole,
\* even number of units, so 1 - (rank - 1) / limit and the mean of two scores are exact
ScoreOne == 4000

\* the candidate_limit of a call
CandidateLimits == {1, 2, 4}

\* cosine similarities a vector search reports: -0.5, 0.25 and 1.0
VectorScores == {-2000, 1000, 4000}

\* the version ids the candidate lists are drawn from
CandidateIds == 1..MaxCandidates

\* score = 1.0 - (rank - 1) / max(candidate_limit, 1)
keyword_score(rank, candidate_limit) == ScoreOne - ((rank - 1) * ScoreOne) \div Max({candidate_limit, 1})

\* the loop over keyword_matches: every version is appended with its rank score and remembered in seen
RECURSIVE keyword_pass(_, _, _, _, _)
keyword_pass(keyword_matches, rank, candidate_limit, seen, results) ==
    IF keyword_matches = <<>> THEN [seen |-> seen, results |-> results]
    ELSE LET score == keyword_score(rank, candidate_limit)
         IN  keyword_pass(Tail(keyword_matches), rank + 1, candidate_limit, (Head(keyword_matches) :> score) @@ seen, Append(results, <<Head(keyword_matches), score>>))

\* the loop over vector_matches: a version seen before is appended again, with the mean
RECURSIVE vector_pass(_, _, _)
vector_pass(vector_matches, seen, results) ==
    IF vector_matches = <<>> THEN results
    ELSE LET id == Head(vector_matches)[1]
             score == Head(vector_matches)[2]
             combined == IF id \in DOMAIN seen THEN (seen[id] + score) \div 2 ELSE score
         IN  vector_pass(Tail(vector_matches), (id :> combined) @@ seen, Append(results, <<id, combined>>))

\* a faulty variant of deduped: an id is entered every time it occurs
deduped_twice(results, entries) == results

\* the dict deduped, in insertion order: an id's entry is replaced when a later score is greater
RECURSIVE deduped(_, _)
deduped(results, entries) ==
    IF results = <<>> THEN entries
    ELSE LET id == Head(results)[1]
             score == Head(results)[2]
             at == {i \in 1..Len(entries) : entries[i][1] = id}
         IN  IF at = {} THEN deduped(Tail(results), Append(entries, Head(results)))
             ELSE deduped(Tail(results), [i \in 1..Len(entries) |-> IF i \in at /\ entries[i][2] < score THEN Head(results) ELSE entries[i]])

\* sorted(..., key=score, reverse=True): stable, so equal scores keep their order
RECURSIVE sorted_by_score(_, _)
sorted_by_score(items, done) ==
    IF items = <<>> THEN done
    ELSE LET k == Cardinality({i \in 1..Len(done) : done[i][2] >= Head(items)[2]})
         IN  sorted_by_score(Tail(items), SubSeq(done, 1, k) \o <<Head(items)>> \o SubSeq(done, k + 1, Len(done)))

\* hybrid_search over what the repository answered; an empty list is also the call without
\* a keyword, or without a vector
hybrid_search(keyword_matches, vector_matches, candidate_limit) ==
    LET keyword == keyword_pass(keyword_matches, 1, candidate_limit, <<>>, <<>>)
        results == vector_pass(vector_matches, keyword.seen, keyword.results)
    IN  sorted_by_score(deduped(results, <<>>), <<>>)

\* one call of hybrid_search
hybrid_search_call ==
    /\ ordered = NULL
    /\ ordered' = hybrid_search(matches.keyword_matches, matches.vector_matches, matches.candidate_limit)
    /\ UNCHANGED <<others, matches, found, notes, versions, reviews, events, version_log, store, calls>>

\* ---- NotesService.search over the in-memory repository

\* the versions of S in the order the repository visits them: note by note, and the
\* versions of a note as they were created
RECURSIVE stored_order(_, _)
stored_order(vs, S) ==
    IF S = {} THEN <<>>
    ELSE LET v == CHOOSE x \in S : \A y \in S : vs[x].note_id < vs[y].note_id \/ (vs[x].note_id = vs[y].note_id /\ x <= y)
         IN  <<v>> \o stored_order(vs, S \ {v})

\* haystack.count(term), the haystack being title and content: the words used here occur
\* once in a field or not at all
term_count(version, term) == (IF lower(version.title) = term THEN 1 ELSE 0) + (IF lower(version.content) = term THEN 1 ELSE 0)

\* sum(haystack.count(term) for term in query.lower().split()): an empty query has no terms
keyword_hits(version, query) == IF query = "" THEN 0 ELSE term_count(version, lower(query))

\* the APPROVED versions the query hits, most hits first, no more than limit
keyword_search(vs, query, limit) ==
    LET hits == stored_order(vs, {v \in DOMAIN vs : vs[v].state = APPROVED /\ keyword_hits(vs[v], query) > 0})
        scored == sorted_by_score([i \in 1..Len(hits) |-> <<hits[i], keyword_hits(vs[hits[i]], query)>>], <<>>)
    IN  [i \in 1..Min({limit, Len(scored)}) |-> scored[i][1]]

\* the APPROVED versions that have a vector, with their similarity to the query's, best first,
\* no more than limit; similarity is what the embedding service made of the texts, and is
\* empty when the search has no vector
vector_search(vs, similarity, limit) ==
    LET having == stored_order(vs, {v \in DOMAIN vs \cap DOMAIN similarity : vs[v].state = APPROVED})
        scored == sorted_by_score([i \in 1..Len(having) |-> <<having[i], similarity[having[i]]>>], <<>>)
    IN  SubSeq(scored, 1, Min({limit, Len(scored)}))

\* None and "*" are the empty query
normalized_keyword(keyword) == IF keyword = NULL THEN "" ELSE IF strip(keyword) = "*" THEN "" ELSE strip(keyword)

\* the defaults of offset and limit
search_offset == 0

search_limit == 10

\* candidate_limit = max(offset + limit * 5, 500)
search_candidate_limit == Max({search_offset + search_limit * 5, 500})

\* a faulty variant of filtered: a note is entered once for each of its hits
RECURSIVE filtered_every_hit(_, _, _, _, _, _)
filtered_every_hit(ns, raw_results, seen_notes, kept, include_drafts, allow_deleted) ==
    IF raw_results = <<>> THEN kept
    ELSE LET version == Head(raw_results)[1]
             score == Head(raw_results)[2]
             note_id == versions[version].note_id
             draft == IF include_drafts THEN get_drafts_by_note_ids(versions, note_id) ELSE NoId
             display_version == select_display_version(ns, note_id)
             skipped == \/ note_id \notin DOMAIN ns
                        \/ ns[note_id].deleted_at # NULL /\ ~allow_deleted
                        \/ draft = NoId /\ (display_version = NoId \/ (~include_drafts /\ versions[display_version].state # APPROVED))
         IN  IF skipped THEN filtered_every_hit(ns, Tail(raw_results), seen_notes, kept, include_drafts, allow_deleted)
             ELSE filtered_every_hit(ns, Tail(raw_results), seen_notes \cup {note_id}, Append(kept, <<IF draft # NoId THEN draft ELSE display_version, score>>), include_drafts, allow_deleted)

\* the loop over raw_results: one candidate for each note that is met, is stored, is not
\* deleted (unless allow_deleted), and has a draft (with include_drafts) or a display version
\* (which must be APPROVED without include_drafts); no author or tag filter is given
RECURSIVE filtered(_, _, _, _, _, _)
filtered(ns, raw_results, seen_notes, kept, include_drafts, allow_deleted) ==
    IF raw_results = <<>> THEN kept
    ELSE LET version == Head(raw_results)[1]
             score == Head(raw_results)[2]
             note_id == versions[version].note_id
             draft == IF include_drafts THEN get_drafts_by_note_ids(versions, note_id) ELSE NoId
             display_version == select_display_version(ns, note_id)
             skipped == \/ note_id \in seen_notes
                        \/ note_id \notin DOMAIN ns
                        \/ ns[note_id].deleted_at # NULL /\ ~allow_deleted
                        \/ draft = NoId /\ (display_version = NoId \/ (~include_drafts /\ versions[display_version].state # APPROVED))
         IN  IF skipped THEN filtered(ns, Tail(raw_results), seen_notes, kept, include_drafts, allow_deleted)
             ELSE filtered(ns, Tail(raw_results), seen_notes \cup {note_id}, Append(kept, <<IF draft # NoId THEN draft ELSE display_version, score>>), include_drafts, allow_deleted)

\* what search returns for the notes ns: the page and the total
search(ns, keyword, similarity, include_drafts, allow_deleted) ==
    LET raw_results == hybrid_search(keyword_search(versions, normalized_keyword(keyword), search_candidate_limit), vector_search(versions, similarity, search_candidate_limit), search_candidate_limit)
        kept == filtered(ns, raw_results, {}, <<>>, include_drafts, allow_deleted)
    IN  [page_slice |-> SubSeq(kept, search_offset + 1, Min({Len(kept), search_offset + search_limit})), total |-> Len(kept)]

\* one call of NotesService.search
search_call(keyword, similarity, include_drafts, allow_deleted) ==
    /\ found' = search(notes, keyword, similarity, include_drafts, allow_deleted)
    /\ UNCHANGED <<others, matches, ordered, notes, versions, reviews, events, version_log, store, calls>>

\* ======================= the system =======================

\* the ids a caller can name: those of the rows there are, and one that names no row
known(rows) == DOMAIN rows \cup {NoId}

\* who writes notes and drafts in the full workflow (SpecNotes lets every user write)
NoteAuthors == {"alice"}

\* who calls approve_version directly in the full workflow; the id is recorded, never tested
Approvers == {"bob"}

\* reviewer lists a caller passes when it opens a review; NULL is an argument left out
ReviewerInputs == {NULL}

\* reviewer lists a caller passes to update_review, blanks and repeats included
UpdateReviewerInputs == {NULL, <<" ">>, <<" ", "bob", " bob">>}

Messages == {"", "m"}

RECURSIVE SumLen(_, _)
SumLen(es, S) == IF S = {} THEN 0 ELSE LET r == CHOOSE x \in S : TRUE IN Len(es[r]) + SumLen(es, S \ {r})

\* the events recorded so far, all reviews together
event_count(es) == SumLen(es, DOMAIN es)

\* the step stays within the bounds of the model
Bounded(max_versions) ==
    /\ Cardinality(DOMAIN notes') <= MaxNotes
    /\ Len(version_log') <= max_versions
    /\ Cardinality(DOMAIN reviews') <= MaxReviews
    /\ event_count(events') <= MaxEvents

\* every service call, notes and reviews together
Next ==
    \/ \E u \in NoteAuthors : create_note(u, "t1", "c1", "[a]") /\ Bounded(MaxVersions)
    \/ \E v \in known(versions), u \in Users : update_draft(v, u, NULL, NULL, NULL) /\ Bounded(MaxVersions)
    \/ \E v \in known(versions), u \in NoteAuthors : submit_for_review(v, u) /\ Bounded(MaxVersions)
    \/ \E v \in known(versions), u \in Approvers : approve_version(v, u) /\ Bounded(MaxVersions)
    \/ \E n \in known(notes), u \in NoteAuthors : create_draft_from_current(n, u, "c1", NULL, NULL) /\ Bounded(MaxVersions)
    \/ \E n \in known(notes), u \in Users : discard_draft(n, u) /\ Bounded(MaxVersions)
    \/ \E v \in known(versions), u \in Users, rs \in ReviewerInputs : submit_version_for_review(v, u, rs) /\ Bounded(MaxVersions)
    \/ \E n \in known(notes), u \in NoteAuthors, rs \in ReviewerInputs : request_note_deletion(n, u, rs) /\ Bounded(MaxVersions)
    \/ \E n \in known(notes), u \in NoteAuthors, rs \in ReviewerInputs : request_note_restore(n, u, rs) /\ Bounded(MaxVersions)
    \/ \E r \in known(reviews), u \in NoteAuthors, m \in Messages : comment_on_review(r, u, m) /\ Bounded(MaxVersions)
    \/ \E r \in known(reviews), u \in Users : approve_review(r, u) /\ Bounded(MaxVersions)
    \/ \E r \in known(reviews), u \in Users : request_changes(r, u) /\ Bounded(MaxVersions)
    \/ \E r \in known(reviews), u \in NoteAuthors : close_review(r, u) /\ Bounded(MaxVersions)
    \/ \E r \in known(reviews), u \in Users : reopen_review(r, u) /\ Bounded(MaxVersions)
    \/ \E r \in known(reviews), u \in Users, rs \in UpdateReviewerInputs : update_review(r, u, rs) /\ Bounded(MaxVersions)
    \/ \E r \in known(reviews), u \in Users : merge_review(r, u) /\ Bounded(MaxVersions)

Spec == Init /\ [][Next]_vars

\* the note lifecycle alone, every user writing and both payloads
NextNotes ==
    \/ \E u \in Users, c \in Contents : create_note(u, "t1", c, "[a]") /\ Bounded(MaxDrafts)
    \/ \E v \in known(versions), u \in Users, c \in Contents \cup {NULL} : update_draft(v, u, NULL, c, NULL) /\ Bounded(MaxDrafts)
    \/ \E v \in known(versions), u \in Users : submit_for_review(v, u) /\ Bounded(MaxDrafts)
    \/ \E v \in known(versions), u \in Users : approve_version(v, u) /\ Bounded(MaxDrafts)
    \/ \E n \in known(notes), u \in Users, c \in Contents : create_draft_from_current(n, u, c, NULL, NULL) /\ Bounded(MaxDrafts)
    \/ \E n \in known(notes), u \in Users : discard_draft(n, u) /\ Bounded(MaxDrafts)

SpecNotes == Init /\ [][NextNotes]_vars

RECURSIVE SumVotes(_, _)
SumVotes(ns, S) == IF S = {} THEN 0 ELSE LET n == CHOOSE x \in S : TRUE IN ns[n].upvotes + ns[n].downvotes + SumVotes(ns, S \ {n})

\* ---- the vote counters: notes with and without versions, and votes on them
VoteActions == {"upvote", "downvote", "sidevote", ""}

vote_count(ns) == SumVotes(ns, DOMAIN ns)

BoundedVotes ==
    /\ Bounded(MaxVersions)
    /\ vote_count(notes') <= MaxVotes

NextVotes ==
    \/ \E u \in NoteAuthors : create_note(u, "t1", "c1", "[a]") /\ BoundedVotes
    \/ \E v \in known(versions), u \in NoteAuthors : submit_for_review(v, u) /\ BoundedVotes
    \/ \E v \in known(versions), u \in Approvers : approve_version(v, u) /\ BoundedVotes
    \/ \E n \in known(notes), u \in NoteAuthors : create_draft_from_current(n, u, "c1", NULL, NULL) /\ BoundedVotes
    \/ \E n \in known(notes), u \in NoteAuthors : discard_draft(n, u) /\ BoundedVotes
    \/ \E n \in known(notes), a \in VoteActions : vote_note(n, a) /\ BoundedVotes

SpecVotes == Init /\ [][NextVotes]_vars

\* ---- concurrent votes, over each of the three repositories
InitRace ==
    /\ notes = <<>>
    /\ versions = <<>>
    /\ reviews = <<>>
    /\ events = <<>>
    /\ version_log = <<>>
    /\ store \in Stores
    /\ calls = <<>>
    /\ matches = NULL
    /\ ordered = NULL
    /\ found = [page_slice |-> <<>>, total |-> 0]
    /\ InitOthers

BoundedRace ==
    /\ Bounded(MaxVersions)
    /\ Len(calls') <= MaxCalls

NextRace ==
    \/ \E u \in NoteAuthors : create_note(u, "t1", "c1", "[a]") /\ BoundedRace
    \/ \E n \in known(notes), a \in VoteActions : vote_note_begin(n, a) /\ BoundedRace
    \/ \E i \in 0..MaxCalls : vote_note_finish(i) /\ BoundedRace

SpecVoteRace == InitRace /\ [][NextRace]_vars

\* ---- drafts with titles and tags: what a draft request may carry
DraftTitles == {NULL, "", "t2"}

DraftTags == {NULL, "[]", "[b]"}

NextDrafts ==
    \/ \E u \in NoteAuthors : create_note(u, "t1", "c1", "[a]") /\ Bounded(MaxVersions)
    \/ \E v \in known(versions), u \in Users, t \in DraftTitles, g \in DraftTags : update_draft(v, u, t, NULL, g) /\ Bounded(MaxVersions)
    \/ \E v \in known(versions), u \in NoteAuthors : submit_for_review(v, u) /\ Bounded(MaxVersions)
    \/ \E v \in known(versions), u \in Approvers : approve_version(v, u) /\ Bounded(MaxVersions)
    \/ \E n \in known(notes), u \in NoteAuthors, c \in Contents, t \in DraftTitles, g \in DraftTags : create_draft_from_current(n, u, c, t, g) /\ Bounded(MaxVersions)
    \/ \E n \in known(notes), u \in NoteAuthors : discard_draft(n, u) /\ Bounded(MaxVersions)

SpecDrafts == Init /\ [][NextDrafts]_vars

\* ---- special reviews as they may be stored: with any type, or none and any title
ReviewTypes == {NULL, "", "Deletion", "restore", "purge"}

ReviewTitles == {"Delete: t1", "RESTORE: t1", "deleted t1", "t1"}

NextSpecial ==
    \/ \E u \in NoteAuthors : create_note(u, "t1", "c1", "[a]") /\ Bounded(MaxVersions)
    \/ \E n \in DOMAIN notes, u \in NoteAuthors, t \in ReviewTitles, ty \in ReviewTypes : create_review(n, NoId, notes[n].current_version_id, t, u, NULL, ty) /\ Bounded(MaxVersions)
    \/ \E n \in known(notes), u \in NoteAuthors, rs \in ReviewerInputs : request_note_deletion(n, u, rs) /\ Bounded(MaxVersions)
    \/ \E r \in known(reviews), u \in NoteAuthors : close_review(r, u) /\ Bounded(MaxVersions)
    \/ \E r \in known(reviews), u \in Users : merge_review(r, u) /\ Bounded(MaxVersions)

SpecSpecial == Init /\ [][NextSpecial]_vars

\* ---- drafts discarded on a note with a longer history: three versions, reviewed
NextDiscard ==
    \/ \E u \in NoteAuthors : create_note(u, "t1", "c1", "[a]") /\ Bounded(MaxDrafts)
    \/ \E v \in known(versions), u \in NoteAuthors : submit_for_review(v, u) /\ Bounded(MaxDrafts)
    \/ \E v \in known(versions), u \in NoteAuthors, rs \in ReviewerInputs : submit_version_for_review(v, u, rs) /\ Bounded(MaxDrafts)
    \/ \E v \in known(versions), u \in Approvers : approve_version(v, u) /\ Bounded(MaxDrafts)
    \/ \E n \in known(notes), u \in NoteAuthors : create_draft_from_current(n, u, "c1", NULL, NULL) /\ Bounded(MaxDrafts)
    \/ \E r \in known(reviews), u \in Approvers : request_changes(r, u) /\ Bounded(MaxDrafts)
    \/ \E n \in known(notes), u \in Users : discard_draft(n, u) /\ Bounded(MaxDrafts)

SpecDiscard == Init /\ [][NextDiscard]_vars

\* ---- hybrid_search over the candidate lists a repository can answer with
distinct(ids) == \A i, j \in 1..Len(ids) : ids[i] = ids[j] => i = j

\* keyword_search: versions, each once, no more than the limit
KeywordMatches(limit) == {ms \in UNION {[1..k -> CandidateIds] : k \in 0..Min({limit, MaxCandidates})} : distinct(ms)}

\* vector_search: versions with their similarity, each once, best first, no more than the limit
VectorMatches(limit) ==
    {ms \in UNION {[1..k -> CandidateIds \X VectorScores] : k \in 0..Min({limit, MaxCandidates})} :
        /\ distinct([i \in 1..Len(ms) |-> ms[i][1]])
        /\ \A i \in 1..Len(ms) - 1 : ms[i][2] >= ms[i + 1][2]}

InitSearch ==
    /\ notes = <<>>
    /\ versions = <<>>
    /\ reviews = <<>>
    /\ events = <<>>
    /\ version_log = <<>>
    /\ store = MEMORY
    /\ calls = <<>>
    /\ \E limit \in CandidateLimits : matches \in [keyword_matches : KeywordMatches(limit), vector_matches : VectorMatches(limit), candidate_limit : {limit}]
    /\ ordered = NULL
    /\ found = [page_slice |-> <<>>, total |-> 0]
    /\ InitOthers

NextSearch == hybrid_search_call

SpecSearch == InitSearch /\ [][NextSearch]_vars

\* ---- searches over a note with a longer history: versions approved, branched, sent back
\* and discarded
Keywords == {"*", " c2 ", "c1"}

\* what the embedding service can make of the stored texts and the query: which of the
\* first versions have a vector, each at cosine 0.25 to the query's; none when no vector is searched
Similarities == UNION {[S -> {ScoreOne \div 4}] : S \in SUBSET (1..MaxVersions)}

NextNotesSearch ==
    \/ \E u \in NoteAuthors : create_note(u, "t1", "c1", "[a]") /\ Bounded(MaxDrafts)
    \/ \E v \in known(versions), u \in NoteAuthors : submit_for_review(v, u) /\ Bounded(MaxDrafts)
    \/ \E v \in known(versions), u \in NoteAuthors, rs \in ReviewerInputs : submit_version_for_review(v, u, rs) /\ Bounded(MaxDrafts)
    \/ \E v \in known(versions), u \in Approvers : approve_version(v, u) /\ Bounded(MaxDrafts)
    \/ \E n \in known(notes), u \in NoteAuthors : create_draft_from_current(n, u, "c2", NULL, NULL) /\ Bounded(MaxDrafts)
    \/ \E r \in known(reviews), u \in Approvers : request_changes(r, u) /\ Bounded(MaxDrafts)
    \/ \E n \in known(notes), u \in NoteAuthors : discard_draft(n, u) /\ Bounded(MaxDrafts)
    \/ \E k \in Keywords, sim \in Similarities, include_drafts \in BOOLEAN : search_call(k, sim, include_drafts, FALSE) /\ Bounded(MaxDrafts)

SpecNotesSearch == Init /\ [][NextNotesSearch]_vars

\* ---- searches over up to two notes that are deleted and restored
BoundedDeleted ==
    /\ Cardinality(DOMAIN notes') <= MaxSearchNotes
    /\ Len(version_log') <= MaxVersions
    /\ Cardinality(DOMAIN reviews') <= MaxReviews
    /\ event_count(events') <= MaxEvents

NextDeletedSearch ==
    \/ \E u \in NoteAuthors : create_note(u, "t1", "c1", "[a]") /\ BoundedDeleted
    \/ \E v \in known(versions), u \in NoteAuthors : submit_for_review(v, u) /\ BoundedDeleted
    \/ \E v \in known(versions), u \in Approvers : approve_version(v, u) /\ BoundedDeleted
    \/ \E n \in known(notes), u \in NoteAuthors, rs \in ReviewerInputs : request_note_deletion(n, u, rs) /\ BoundedDeleted
    \/ \E n \in known(notes), u \in NoteAuthors, rs \in ReviewerInputs : request_note_restore(n, u, rs) /\ BoundedDeleted
    \/ \E r \in known(reviews), u \in Approvers : merge_review(r, u) /\ BoundedDeleted
    \/ \E k \in Keywords, sim \in Similarities, include_drafts, allow_deleted \in BOOLEAN : search_call(k, sim, include_drafts, allow_deleted) /\ BoundedDeleted

SpecDeletedSearch == Init /\ [][NextDeletedSearch]_vars







\* ======================= properties =======================

drafts_of(note_id) == {v \in note_versions(versions, note_id) : versions[v].state = DRAFT}

ordinary(review_id) == reviews[review_id].draft_version_id # NoId

creator(review_id) == reviews[review_id].created_by

ACTIVE_STATUSES == {OPEN, CHANGES_REQUESTED}

active(review_id) == reviews[review_id].status \in ACTIVE_STATUSES

\* C1: in every reachable state each note has at most one version whose state is DRAFT.
C1_AtMostOneDraft == \A n \in DOMAIN notes : Cardinality(drafts_of(n)) <= 1

\* C2: in every reachable state a note's non-null current_version_id names a version that
\* exists and is APPROVED, from the moment create_note sets the pointer.
C2_CurrentVersionApproved == \A n \in DOMAIN notes : notes[n].current_version_id # NoId => (notes[n].current_version_id \in DOMAIN versions /\ versions[notes[n].current_version_id].state = APPROVED)

\* C3: a version that is APPROVED is never taken back to DRAFT or NEEDS_REVIEW by a later step.
C3_ApprovedStaysApproved == [][\A v \in DOMAIN versions : (versions[v].state = APPROVED /\ v \in DOMAIN versions') => versions'[v].state = APPROVED]_vars

\* C4: the indexes handed out to a note's versions are strictly increasing in creation order,
\* so none is handed out twice, also after discard_draft has deleted the highest one.
C4_IndexNeverReused == \A i, j \in 1..Len(version_log) : (i < j /\ version_log[i].note_id = version_log[j].note_id) => version_log[i].version_index < version_log[j].version_index

\* C5: a MERGED review stays MERGED with its review_decisions, reviewer_ids, merged_by and
\* merge_version_id as they are, whatever is called next; its timeline grows only by a COMMENT
\* event, and only in a comment_on_review step.
C5_MergedIsTerminal ==
    [][\A r \in DOMAIN reviews : reviews[r].status = MERGED =>
        /\ r \in DOMAIN reviews'
        /\ reviews'[r].status = MERGED
        /\ reviews'[r].review_decisions = reviews[r].review_decisions
        /\ reviews'[r].reviewer_ids = reviews[r].reviewer_ids
        /\ reviews'[r].merged_by = reviews[r].merged_by
        /\ reviews'[r].merge_version_id = reviews[r].merge_version_id
        /\ \/ events'[r] = events[r]
           \/ /\ events'[r] = Append(events[r], new_event(COMMENT, NULL))
              /\ \E u \in Users, m \in Messages : comment_on_review(r, u, m)]_vars

\* a MERGED review that has been commented on after the merge
C5_Witness == \E r \in DOMAIN reviews : reviews[r].status = MERGED /\ Len(events[r]) >= 3 /\ events[r][Len(events[r]) - 1].event_type = MERGED /\ events[r][Len(events[r])].event_type = COMMENT

\* C6: no draft version has two reviews that are OPEN or CHANGES_REQUESTED, and
\* submit_version_for_review of a version that has a review updates that review: no review
\* row is added and the SUBMITTED event goes to its timeline.
C6_OneActiveReviewPerDraft ==
    /\ [](\A r1, r2 \in DOMAIN reviews : (ordinary(r1) /\ reviews[r1].draft_version_id = reviews[r2].draft_version_id /\ active(r1) /\ active(r2)) => r1 = r2)
    /\ [][\A v \in DOMAIN versions, u \in Users, rs \in ReviewerInputs :
            (get_review_by_version(v) # NoId /\ submit_for_review_result(v) = OK /\ submit_version_for_review(v, u, rs)) =>
                /\ DOMAIN reviews' = DOMAIN reviews
                /\ reviews'[get_review_by_version(v)].status = OPEN
                /\ events'[get_review_by_version(v)] = Append(events[get_review_by_version(v)], new_event(SUBMITTED, u))]_vars

\* a version submitted a second time: its one review is OPEN again with two SUBMITTED events
C6_Witness == \E r \in DOMAIN reviews : ordinary(r) /\ reviews[r].status = OPEN /\ Len(events[r]) = 3 /\ events[r][1].event_type = SUBMITTED /\ events[r][3].event_type = SUBMITTED /\ Cardinality({q \in DOMAIN reviews : reviews[q].draft_version_id = reviews[r].draft_version_id}) = 1

\* C7: approve_version by r of a note's submitted version 0 leaves the version APPROVED with
\* committed_by = r and reviewed_by = r, and the note pointing at it with committed_by = r.
C7_CreateSubmitApprove ==
    [][\A v \in DOMAIN versions, r \in Users :
        (versions[v].version_index = 0 /\ approve_version_result(v) = OK /\ approve_version(v, r)) =>
            /\ versions'[v].state = APPROVED
            /\ versions'[v].committed_by = r
            /\ versions'[v].reviewed_by = r
            /\ notes'[versions[v].note_id].current_version_id = v
            /\ notes'[versions[v].note_id].committed_by = r]_vars

\* a note whose version 0 has been approved and is its current version
C7_Witness == \E v \in DOMAIN versions : versions[v].version_index = 0 /\ versions[v].state = APPROVED /\ versions[v].committed_by # NULL /\ versions[v].reviewed_by = versions[v].committed_by /\ notes[versions[v].note_id].current_version_id = v /\ notes[versions[v].note_id].committed_by = versions[v].committed_by

\* C8 as stated: approve_review and merge_review by the review's creator are always refused
\* with 403 Forbidden.
C8_CreatorAlwaysForbidden == \A r \in DOMAIN reviews : approve_review_result(r, creator(r)) = HTTP_403_FORBIDDEN /\ merge_review_result(r, creator(r)) = HTTP_403_FORBIDDEN

\* C8: approve_review and merge_review by the review's creator never succeed and change
\* nothing, on ordinary and special reviews alike; the refusal is 403 Forbidden unless the
\* status check comes first: 400 from approve_review on a MERGED or CLOSED review and from
\* merge_review on a MERGED one.
C8_CreatorNeverApprovesOrMerges ==
    /\ [](\A r \in DOMAIN reviews :
            /\ approve_review_result(r, creator(r)) = (IF reviews[r].status \in {MERGED, CLOSED} THEN HTTP_400_BAD_REQUEST ELSE HTTP_403_FORBIDDEN)
            /\ merge_review_result(r, creator(r)) = (IF reviews[r].status = MERGED THEN HTTP_400_BAD_REQUEST ELSE HTTP_403_FORBIDDEN))
    /\ [][\A r \in DOMAIN reviews : (approve_review(r, creator(r)) \/ merge_review(r, creator(r))) => UNCHANGED vars]_vars

\* an ordinary review that is CLOSED, where the creator's approve_review is refused with 400,
\* next to a special review that is OPEN, where the creator's calls are refused with 403
C8_Witness == \E r1, r2 \in DOMAIN reviews : ordinary(r1) /\ reviews[r1].status = CLOSED /\ approve_review_result(r1, creator(r1)) = HTTP_400_BAD_REQUEST /\ merge_review_result(r1, creator(r1)) = HTTP_403_FORBIDDEN /\ ~ordinary(r2) /\ reviews[r2].status = OPEN /\ approve_review_result(r2, creator(r2)) = HTTP_403_FORBIDDEN /\ merge_review_result(r2, creator(r2)) = HTTP_403_FORBIDDEN

\* C9: a merge_review that succeeds on an ordinary review, by a reviewer r who is then not
\* its creator, leaves the review MERGED with merged_by = r and merge_version_id =
\* draft_version_id, the draft version APPROVED with reviewed_by = r, and the note pointing
\* at the draft version.
C9_MergeOrdinary ==
    [][\A r \in DOMAIN reviews, u \in Users :
        (ordinary(r) /\ merge_review_result(r, u) = OK /\ merge_review(r, u)) =>
            /\ u # creator(r)
            /\ reviews'[r].status = MERGED
            /\ reviews'[r].merged_by = u
            /\ reviews'[r].merge_version_id = reviews[r].draft_version_id
            /\ versions'[reviews[r].draft_version_id].state = APPROVED
            /\ versions'[reviews[r].draft_version_id].reviewed_by = u
            /\ notes'[reviews[r].note_id].current_version_id = reviews[r].draft_version_id]_vars

\* an ordinary review merged by someone other than its creator
C9_Witness == \E r \in DOMAIN reviews : ordinary(r) /\ reviews[r].status = MERGED /\ reviews[r].merged_by \notin {NULL, creator(r)} /\ reviews[r].merge_version_id = reviews[r].draft_version_id /\ versions[reviews[r].draft_version_id].state = APPROVED /\ versions[reviews[r].draft_version_id].reviewed_by = reviews[r].merged_by /\ notes[reviews[r].note_id].current_version_id = reviews[r].draft_version_id

\* the outcome of request_changes(r, u) that C10 names
changes_requested(r, u) ==
    /\ reviews'[r].status = CHANGES_REQUESTED
    /\ DOMAIN reviews'[r].review_decisions = DOMAIN reviews[r].review_decisions \cup {u}
    /\ reviews'[r].review_decisions[u] = CHANGES_REQUESTED
    /\ \A w \in DOMAIN reviews[r].review_decisions \ {u} : reviews'[r].review_decisions[w] = reviews[r].review_decisions[w]
    /\ versions'[reviews[r].draft_version_id].state = DRAFT
    /\ versions'[reviews[r].draft_version_id].submitted_by = NULL

special_of(review_id, review_type) == ~ordinary(review_id) /\ rtype(reviews[review_id]) = review_type

\* the versions and the note's pointer are as they were
history_intact(note_id) == versions' = versions /\ notes'[note_id].current_version_id = notes[note_id].current_version_id

\* every version but this one is as it was, and no version came or went
other_versions_unchanged(version_id) == DOMAIN versions' = DOMAIN versions /\ \A w \in DOMAIN versions \ {version_id} : versions'[w] = versions[w]

\* C11: a merge_review of a deletion review that gets past its checks (so by a reviewer other
\* than the creator) sets the note's deleted_at and deleted_by, deleted_by to the merger, and
\* leaves every version and the note's current_version_id as they were.
C11_DeletionMerge ==
    [][\A r \in DOMAIN reviews, u \in Users :
        (special_of(r, "deletion") /\ merge_review_precheck(r, u) = OK /\ merge_review(r, u)) =>
            /\ u # creator(r)
            /\ reviews'[r].status = MERGED
            /\ notes'[reviews[r].note_id].deleted_at # NULL
            /\ notes'[reviews[r].note_id].deleted_by = u
            /\ history_intact(reviews[r].note_id)]_vars

\* a note soft-deleted by the merger of its deletion review, its versions still there
C11_Witness == \E r \in DOMAIN reviews : special_of(r, "deletion") /\ reviews[r].status = MERGED /\ reviews[r].merged_by \notin {NULL, creator(r)} /\ notes[reviews[r].note_id].deleted_at # NULL /\ notes[reviews[r].note_id].deleted_by = reviews[r].merged_by /\ note_versions(versions, reviews[r].note_id) # {} /\ notes[reviews[r].note_id].current_version_id \in DOMAIN versions

\* C12: deleted_at and deleted_by are always both set or both absent; a merge_review of a
\* restore review that gets past its checks clears both; and a merge of a deletion or restore
\* review leaves the versions and current_version_id as they were, so deletion then restore
\* gives back the note not deleted and otherwise unchanged.
C12_RestoreMerge ==
    /\ [](\A n \in DOMAIN notes : (notes[n].deleted_at = NULL) <=> (notes[n].deleted_by = NULL))
    /\ [][\A r \in DOMAIN reviews, u \in Users :
            /\ (special_of(r, "restore") /\ merge_review_precheck(r, u) = OK /\ merge_review(r, u)) =>
                    (u # creator(r) /\ reviews'[r].status = MERGED /\ notes'[reviews[r].note_id].deleted_at = NULL /\ notes'[reviews[r].note_id].deleted_by = NULL)
            /\ (~ordinary(r) /\ merge_review_precheck(r, u) = OK /\ merge_review(r, u)) => history_intact(reviews[r].note_id)]_vars

\* a note with a merged deletion review and a merged restore review that is not deleted
C12_Witness == \E r1, r2 \in DOMAIN reviews : special_of(r1, "deletion") /\ reviews[r1].status = MERGED /\ special_of(r2, "restore") /\ reviews[r2].status = MERGED /\ reviews[r1].note_id = reviews[r2].note_id /\ notes[reviews[r1].note_id].deleted_at = NULL /\ notes[reviews[r1].note_id].deleted_by = NULL /\ note_versions(versions, reviews[r1].note_id) # {}

\* C17: approve_review by a reviewer other than the creator succeeds exactly when the review
\* is neither MERGED nor CLOSED; it then records APPROVED for the reviewer and leaves the
\* status OPEN, and changes no version, no note and neither merged_by nor merge_version_id.
C17_ApproveReview ==
    /\ [](\A r \in DOMAIN reviews : \A u \in Users \ {creator(r)} : approve_review_result(r, u) = (IF reviews[r].status \in {MERGED, CLOSED} THEN HTTP_400_BAD_REQUEST ELSE OK))
    /\ [][\A r \in DOMAIN reviews, u \in Users :
            (approve_review_result(r, u) = OK /\ approve_review(r, u)) =>
                /\ u \in DOMAIN reviews'[r].review_decisions
                /\ reviews'[r].review_decisions[u] = APPROVED
                /\ reviews'[r].status = OPEN
                /\ versions' = versions
                /\ notes' = notes
                /\ reviews'[r].merged_by = reviews[r].merged_by
                /\ reviews'[r].merge_version_id = reviews[r].merge_version_id]_vars

\* a review approved by a reviewer other than its creator: OPEN, not merged, its draft waiting
C17_Witness == \E r \in DOMAIN reviews : ordinary(r) /\ reviews[r].draft_version_id \in DOMAIN versions /\ reviews[r].status = OPEN /\ reviews[r].merged_by = NULL /\ (\E u \in DOMAIN reviews[r].review_decisions : u # creator(r) /\ reviews[r].review_decisions[u] = APPROVED) /\ events[r][Len(events[r])].event_type = APPROVED /\ versions[reviews[r].draft_version_id].state = NEEDS_REVIEW

\* C18: submit_version_for_review of a version that already has a review keeps the review id,
\* makes the review OPEN, leaves no CHANGES_REQUESTED decision and every APPROVED one, makes
\* the version NEEDS_REVIEW with submitted_by the submitter and appends one SUBMITTED event.
C18_Resubmit ==
    [][\A v \in DOMAIN versions, u \in Users, rs \in ReviewerInputs :
        (get_review_by_version(v) # NoId /\ submit_for_review_result(v) = OK /\ submit_version_for_review(v, u, rs)) =>
            /\ review_for_version(v) = get_review_by_version(v)
            /\ DOMAIN reviews' = DOMAIN reviews
            /\ reviews'[get_review_by_version(v)].status = OPEN
            /\ \A w \in DOMAIN reviews'[get_review_by_version(v)].review_decisions : reviews'[get_review_by_version(v)].review_decisions[w] # CHANGES_REQUESTED
            /\ \A w \in DOMAIN reviews[get_review_by_version(v)].review_decisions : reviews[get_review_by_version(v)].review_decisions[w] = APPROVED => (w \in DOMAIN reviews'[get_review_by_version(v)].review_decisions /\ reviews'[get_review_by_version(v)].review_decisions[w] = APPROVED)
            /\ versions'[v].state = NEEDS_REVIEW
            /\ versions'[v].submitted_by = u
            /\ events'[get_review_by_version(v)] = Append(events[get_review_by_version(v)], new_event(SUBMITTED, u))]_vars

\* a draft approved by one reviewer, sent back by another and submitted again: the approval
\* is still there, the request for changes is gone
C18_Witness == \E r \in DOMAIN reviews : ordinary(r) /\ reviews[r].draft_version_id \in DOMAIN versions /\ reviews[r].status = OPEN /\ Len(events[r]) = 4 /\ events[r][3].event_type = CHANGES_REQUESTED /\ events[r][4].event_type = SUBMITTED /\ (\E u \in DOMAIN reviews[r].review_decisions : reviews[r].review_decisions[u] = APPROVED) /\ (\A u \in DOMAIN reviews[r].review_decisions : reviews[r].review_decisions[u] # CHANGES_REQUESTED) /\ versions[reviews[r].draft_version_id].state = NEEDS_REVIEW

\* C19: close_review succeeds exactly when the review is not MERGED; it then makes the status
\* CLOSED and, for a draft-backed review whose version exists, puts that version in DRAFT with
\* submitted_by null; no other version changes, and none at all for a special review.
C19_CloseReview ==
    /\ [](\A r \in DOMAIN reviews : close_review_result(r) = (IF reviews[r].status = MERGED THEN HTTP_400_BAD_REQUEST ELSE OK))
    /\ [][\A r \in DOMAIN reviews, u \in Users :
            (close_review_result(r) = OK /\ close_review(r, u)) =>
                /\ reviews'[r].status = CLOSED
                /\ (ordinary(r) /\ reviews[r].draft_version_id \in DOMAIN versions) => (versions'[reviews[r].draft_version_id].state = DRAFT /\ versions'[reviews[r].draft_version_id].submitted_by = NULL)
                /\ other_versions_unchanged(reviews[r].draft_version_id)
                /\ ~ordinary(r) => versions' = versions]_vars

\* a closed draft-backed review with its draft back in DRAFT, next to a closed special review
C19_Witness == \E r1, r2 \in DOMAIN reviews : ordinary(r1) /\ reviews[r1].draft_version_id \in DOMAIN versions /\ reviews[r1].status = CLOSED /\ events[r1][Len(events[r1])].event_type = CLOSED /\ versions[reviews[r1].draft_version_id].state = DRAFT /\ versions[reviews[r1].draft_version_id].submitted_by = NULL /\ ~ordinary(r2) /\ reviews[r2].status = CLOSED

\* C20: reopen_review succeeds exactly when the status is CLOSED or CHANGES_REQUESTED; it then
\* makes the status OPEN and, for a draft-backed review whose version exists, puts that version
\* in NEEDS_REVIEW with submitted_by the actor; no other version changes.
C20_ReopenReview ==
    /\ [](\A r \in DOMAIN reviews : reopen_review_result(r) = (IF reviews[r].status \in {CLOSED, CHANGES_REQUESTED} THEN OK ELSE HTTP_400_BAD_REQUEST))
    /\ [][\A r \in DOMAIN reviews, a \in Users :
            (reopen_review_result(r) = OK /\ reopen_review(r, a)) =>
                /\ reviews'[r].status = OPEN
                /\ (ordinary(r) /\ reviews[r].draft_version_id \in DOMAIN versions) => (versions'[reviews[r].draft_version_id].state = NEEDS_REVIEW /\ versions'[reviews[r].draft_version_id].submitted_by = a)
                /\ other_versions_unchanged(reviews[r].draft_version_id)
                /\ ~ordinary(r) => versions' = versions]_vars

\* a review closed and reopened: OPEN again, its draft NEEDS_REVIEW and signed by someone
C20_Witness == \E r \in DOMAIN reviews : ordinary(r) /\ reviews[r].draft_version_id \in DOMAIN versions /\ reviews[r].status = OPEN /\ Len(events[r]) >= 3 /\ events[r][Len(events[r]) - 1].event_type \in {CLOSED, CHANGES_REQUESTED} /\ events[r][Len(events[r])].event_type = REOPENED /\ versions[reviews[r].draft_version_id].state = NEEDS_REVIEW /\ versions[reviews[r].draft_version_id].submitted_by # NULL

\* C15: a vote_note that succeeds adds one to the counter its action names and leaves the
\* other counter, and every other note, as they were; upvotes and downvotes are never
\* negative; a vote_note with an action other than upvote and downvote is refused with 400
\* and changes nothing.
C15_VoteCounts ==
    /\ [](\A n \in DOMAIN notes : notes[n].upvotes >= 0 /\ notes[n].downvotes >= 0)
    /\ [](\A n \in known(notes), a \in VoteActions \ {"upvote", "downvote"} : vote_note_result(n, a) = HTTP_400_BAD_REQUEST)
    /\ [][\A n \in known(notes), a \in VoteActions :
            /\ (vote_note_result(n, a) = OK /\ vote_note(n, a)) =>
                    /\ a = "upvote" => (notes'[n].upvotes = notes[n].upvotes + 1 /\ notes'[n].downvotes = notes[n].downvotes)
                    /\ a = "downvote" => (notes'[n].downvotes = notes[n].downvotes + 1 /\ notes'[n].upvotes = notes[n].upvotes)
                    /\ \A m \in DOMAIN notes \ {n} : notes'[m] = notes[m]
            /\ (a \notin {"upvote", "downvote"} /\ vote_note(n, a)) => notes' = notes]_vars

\* a note with a version to show after one upvote and one downvote
C15_Witness == \E n \in DOMAIN notes : notes[n].upvotes = 1 /\ notes[n].downvotes = 1 /\ select_display_version(notes, n) # NoId

same_vote(a) == \A i \in DOMAIN calls : calls[i].action = a

returned == \A i \in DOMAIN calls : calls[i].pc = OK

\* C16: when the vote_note calls made so far all named the same action and all have returned
\* a note, the counter of that action stands at the number of calls: no increment is lost,
\* whichever repository the service runs over.
C16_NoVoteLost ==
    \A n \in DOMAIN notes :
        /\ (same_vote("upvote") /\ returned) => notes[n].upvotes = Cardinality({i \in DOMAIN calls : calls[i].note_id = n})
        /\ (same_vote("downvote") /\ returned) => notes[n].downvotes = Cardinality({i \in DOMAIN calls : calls[i].note_id = n})

\* the draft as a second create_draft_from_current, made right after this step, leaves it
second_draft(n, u, c, t, g) == drafted_versions(n, u, c, t, g)'[draft_from_current(n)']

\* C14: right after a create_draft_from_current that succeeded, a second one on the same note
\* succeeds, returns the same version id, adds no version, and leaves the draft with the
\* content, title and tags it was called with.
C14_SecondDraftCall ==
    [][\A n \in DOMAIN notes, u \in NoteAuthors, c1, c2 \in Contents, t1 \in DraftTitles, g1 \in DraftTags, t2 \in DraftTitles \ {NULL}, g2 \in DraftTags \ {NULL} :
        (create_draft_from_current_result(n) = OK /\ create_draft_from_current(n, u, c1, t1, g1)) =>
            /\ create_draft_from_current_result(n)' = OK
            /\ draft_from_current(n)' = draft_from_current(n)
            /\ DOMAIN drafted_versions(n, u, c2, t2, g2)' = DOMAIN versions'
            /\ second_draft(n, u, c2, t2, g2).content = c2
            /\ second_draft(n, u, c2, t2, g2).title = t2
            /\ second_draft(n, u, c2, t2, g2).tags = g2]_vars

\* a special review whose type, whatever its case, is neither deletion nor restore, or that
\* has no type and a title that begins, whatever its case, with neither delete: nor restore:
unsupported(r) ==
    /\ ~ordinary(r)
    /\ IF reviews[r].type \in {NULL, ""}
       THEN ~startswith(lower(reviews[r].title), "delete:") /\ ~startswith(lower(reviews[r].title), "restore:")
       ELSE lower(reviews[r].type) \notin {"deletion", "restore"}

\* C13: merge_review of such a review never succeeds (400 for a reviewer other than the
\* creator, 403 for the creator) and leaves the review, the note and the timeline as they were.
C13_UnsupportedSpecial ==
    /\ [](\A r \in DOMAIN reviews, u \in Users : (unsupported(r) /\ reviews[r].status # MERGED) =>
            merge_review_result(r, u) = (IF u = creator(r) THEN HTTP_403_FORBIDDEN ELSE HTTP_400_BAD_REQUEST))
    /\ [](\A r \in DOMAIN reviews : unsupported(r) => reviews[r].status # MERGED)
    /\ [][\A r \in DOMAIN reviews, u \in Users : (unsupported(r) /\ merge_review(r, u)) => UNCHANGED <<reviews, notes, events, versions>>]_vars

\* stored special reviews that cannot be merged: one of an unknown type under a deletion
\* title, one without a type under a title that only resembles a deletion title
C13_Witness == \E r1, r2 \in DOMAIN reviews : unsupported(r1) /\ reviews[r1].type = "purge" /\ reviews[r1].title = "Delete: t1" /\ unsupported(r2) /\ reviews[r2].type \in {NULL, ""} /\ reviews[r2].title = "deleted t1" /\ reviews[r2].status = OPEN /\ merge_review_result(r2, "bob") = HTTP_400_BAD_REQUEST

\* the reviewer lists of UpdateReviewerInputs that are lists
GivenReviewerInputs == {<<" ">>, <<" ", "bob", " bob">>}

\* the users a reviewer list names once it is trimmed
listed(reviewer_ids) == {normalized_reviewers(reviewer_ids)[i] : i \in 1..Len(normalized_reviewers(reviewer_ids))}

\* the actor is the review's creator, or the creator or submitter of its draft
may_update(r, u) == u = creator(r) \/ (ordinary(r) /\ reviews[r].draft_version_id \in DOMAIN versions /\ u \in {versions[reviews[r].draft_version_id].created_by, versions[reviews[r].draft_version_id].submitted_by})

\* update_review is refused in each of the three cases, and it never changes the status
update_review_refusals ==
    \A r \in DOMAIN reviews, u \in Users, rs \in UpdateReviewerInputs :
        /\ (reviews[r].status \in {MERGED, CLOSED} \/ ~may_update(r, u) \/ (rs # NULL /\ listed(rs) = {})) => update_review_result(r, u, rs) # OK
        /\ updated_review(reviews[r], r, rs).status = reviews[r].status

\* C21 as stated: besides the refusals, a successful update_review that is given a reviewer
\* list L leaves the review with the list L and with no decision of a user outside L.
C21_UpdateReviewAlways ==
    /\ update_review_refusals
    /\ \A r \in DOMAIN reviews, u \in Users, rs \in GivenReviewerInputs :
            update_review_result(r, u, rs) = OK =>
                /\ updated_review(reviews[r], r, rs).reviewer_ids = normalized_reviewers(rs)
                /\ DOMAIN updated_review(reviews[r], r, rs).review_decisions \subseteq listed(rs)

\* C21: besides the refusals, a successful update_review whose reviewer list L differs from
\* the stored one leaves the review with the list L and with no decision of a user outside L;
\* given the list already stored, it leaves the review as it is.
C21_UpdateReview ==
    /\ update_review_refusals
    /\ \A r \in DOMAIN reviews, u \in Users, rs \in GivenReviewerInputs :
            update_review_result(r, u, rs) = OK =>
                /\ updated_review(reviews[r], r, rs).reviewer_ids = normalized_reviewers(rs)
                /\ normalized_reviewers(rs) # reviews[r].reviewer_ids => DOMAIN updated_review(reviews[r], r, rs).review_decisions \subseteq listed(rs)
                /\ normalized_reviewers(rs) = reviews[r].reviewer_ids => updated_review(reviews[r], r, rs) = reviews[r]

\* a review whose reviewer list was set to bob alone after someone else had decided: only
\* decisions of bob, if any, are left
C21_Witness == \E r \in DOMAIN reviews : reviews[r].reviewer_ids = <<"bob">> /\ Len(events[r]) >= 3 /\ events[r][Len(events[r]) - 1].event_type = CHANGES_REQUESTED /\ events[r][Len(events[r])].event_type = UPDATED /\ DOMAIN reviews[r].review_decisions \subseteq {"bob"}

\* C22: update_draft is refused with 404 for an unknown version, 400 for an APPROVED one and
\* 403 for a DRAFT one edited by another than its creator, and succeeds otherwise, so for any
\* author on a NEEDS_REVIEW version; what it writes differs from the version in title, content
\* and tags at most, and a step of it changes no other version and nothing in the notes.
C22_UpdateDraft ==
    /\ [](\A v \in known(versions), u \in Users :
            update_draft_result(v, u) = (IF v \notin DOMAIN versions THEN HTTP_404_NOT_FOUND
                                         ELSE IF versions[v].state = APPROVED THEN HTTP_400_BAD_REQUEST
                                         ELSE IF versions[v].state = DRAFT /\ versions[v].created_by # u THEN HTTP_403_FORBIDDEN
                                         ELSE OK))
    /\ [](\A v \in DOMAIN versions, t \in DraftTitles, c \in Contents \cup {NULL}, g \in DraftTags :
            [updated_draft(versions[v], t, c, g) EXCEPT !.title = versions[v].title, !.content = versions[v].content, !.tags = versions[v].tags] = versions[v])
    /\ [][\A v \in known(versions), u \in Users, t \in DraftTitles, g \in DraftTags :
            update_draft(v, u, t, NULL, g) => (notes' = notes /\ other_versions_unchanged(v) /\ (update_draft_result(v, u) # OK => UNCHANGED vars))]_vars

\* a version in review that was given a new title and that anyone may edit, next to a draft
\* that only its creator may edit
C22_Witness == \E v, w \in DOMAIN versions : versions[v].state = NEEDS_REVIEW /\ versions[v].title = "t2" /\ update_draft_result(v, "bob") = OK /\ versions[w].state = DRAFT /\ versions[w].created_by = "alice" /\ update_draft_result(w, "bob") = HTTP_403_FORBIDDEN

\* the APPROVED version of the note with the highest version_index, NoId when it has none
latest_approved(vs, note_id) == LET S == {v \in note_versions(vs, note_id) : vs[v].state = APPROVED} IN IF S = {} THEN NoId ELSE highest_index(vs, S)

\* C23: discard_draft is refused with 404 when the note has no DRAFT version and with 403
\* when the requester is not the draft's creator; a discard_draft that succeeds removes the
\* draft and changes no other version, and leaves current_version_id as it was when it named
\* another version, and otherwise at the note's latest APPROVED version, or null without one.
C23_DiscardDraft ==
    /\ [](\A n \in DOMAIN notes, u \in Users :
            discard_draft_result(n, u) = (IF drafts_of(n) = {} THEN HTTP_404_NOT_FOUND
                                          ELSE IF versions[get_drafts_by_note_ids(versions, n)].created_by # u THEN HTTP_403_FORBIDDEN
                                          ELSE OK))
    /\ [][\A n \in DOMAIN notes, u \in Users :
            (discard_draft_result(n, u) = OK /\ discard_draft(n, u)) =>
                /\ versions' = delete_version(versions, get_drafts_by_note_ids(versions, n))
                /\ notes'[n].current_version_id = (IF notes[n].current_version_id # get_drafts_by_note_ids(versions, n) THEN notes[n].current_version_id ELSE latest_approved(versions', n))]_vars

\* the step is a successful approve_version that publishes a version of note n, called directly or by the merge of an ordinary review
approval_step(n) ==
    \/ \E v \in DOMAIN versions, u \in Users : versions[v].note_id = n /\ approve_version_result(v) = OK /\ approve_version(v, u)
    \/ \E r \in DOMAIN reviews, u \in Users : ~merge_is_special(r) /\ merge_review_result(r, u) = OK /\ reviews[r].note_id = n /\ merge_review(r, u)

\* the step is a successful discard_draft of the draft that the pointer of note n names
discard_step(n) ==
    \E u \in Users : discard_draft_result(n, u) = OK /\ notes[n].current_version_id = get_drafts_by_note_ids(versions, n) /\ discard_draft(n, u)

pointer_moved(n) == notes'[n].current_version_id # notes[n].current_version_id

\* C24 as stated: once a note exists, current_version_id changes only in a step of approve_version
\* (direct or through the merge of an ordinary review); no other operation changes it
C24_OnlyApprovalMovesPointer == [][\A n \in DOMAIN notes : pointer_moved(n) => approval_step(n)]_vars

\* C24 amended: once a note exists, current_version_id changes only in a step of approve_version (direct or
\* through the merge of an ordinary review) or in a discard_draft of the draft the pointer names, which resets it;
\* create_draft_from_current, update_draft, request_changes, close_review, reopen_review and special merges keep it
C24_PointerMovers == [][\A n \in DOMAIN notes : pointer_moved(n) => approval_step(n) \/ discard_step(n)]_vars

\* a note whose pointer was reset by discard_draft while a review of it was merged as special
C24_Witness == \E n \in DOMAIN notes : notes[n].current_version_id = NoId /\ \E r \in DOMAIN reviews : reviews[r].note_id = n /\ reviews[r].status = MERGED

\* the step is a successful operation on review r whose event type is t
event_step(r, t) ==
    CASE t = SUBMITTED -> \E v \in DOMAIN versions, u \in Users, rs \in ReviewerInputs : get_review_by_version(v) = r /\ submit_for_review_result(v) = OK /\ submit_version_for_review(v, u, rs)
      [] t = COMMENT -> \E u \in Users, m \in Messages : comment_on_review_result(r, m) = OK /\ comment_on_review(r, u, m)
      [] t = APPROVED -> \E u \in Users : approve_review_result(r, u) = OK /\ approve_review(r, u)
      [] t = CHANGES_REQUESTED -> \E u \in Users : request_changes_result(r) = OK /\ request_changes(r, u)
      [] t = CLOSED -> \E u \in Users : close_review_result(r) = OK /\ close_review(r, u)
      [] t = REOPENED -> \E u \in Users : reopen_review_result(r) = OK /\ reopen_review(r, u)
      [] t = UPDATED -> \E u \in Users, rs \in UpdateReviewerInputs : update_review_result(r, u, rs) = OK /\ update_review(r, u, rs)
      [] t = MERGED -> \E u \in Users : merge_review_result(r, u) = OK /\ merge_review(r, u)
      [] OTHER -> FALSE

\* C25: the timeline of every review only grows: a step leaves the recorded events as they were, in order,
\* and appends at most one event, to one review, of the type of the successful operation that made the step;
\* an operation that fails appends none
C25_TimelineGrows ==
    [][/\ \A r \in DOMAIN reviews : \/ events'[r] = events[r]
                                    \/ \E t \in ReviewEventType : events'[r] = Append(events[r], new_event(t, NULL)) /\ event_step(r, t)
       /\ \A r1, r2 \in DOMAIN reviews : (events'[r1] # events[r1] /\ events'[r2] # events[r2]) => r1 = r2
       /\ \A r \in DOMAIN reviews' \ DOMAIN reviews : Len(events'[r]) <= 1 /\ events' = events @@ (r :> events'[r])]_vars

\* the candidate lists of the call, read back: where a version stands in each
keyword_ranks(id) == {i \in 1..Len(matches.keyword_matches) : matches.keyword_matches[i] = id}

vector_ranks(id) == {i \in 1..Len(matches.vector_matches) : matches.vector_matches[i][1] = id}

rank_score(id) == ScoreOne - ((Min(keyword_ranks(id)) - 1) * ScoreOne) \div matches.candidate_limit

vector_score(id) == matches.vector_matches[Min(vector_ranks(id))][2]

\* C26: a returned version that is in the keyword list (score k = 1 - (rank - 1) / candidate_limit) and in the
\* vector list (score v) has the score (k + v) / 2; one that is in a single list has that list's score
C26_CombinedScore ==
    ordered # NULL =>
        \A j \in 1..Len(ordered) :
            LET id == ordered[j][1]
                score == ordered[j][2]
            IN  IF keyword_ranks(id) # {} /\ vector_ranks(id) # {} THEN 2 * score = rank_score(id) + vector_score(id)
                ELSE IF keyword_ranks(id) # {} THEN score = rank_score(id)
                ELSE score = vector_score(id)

\* C27: for every pair of candidate lists hybrid_search returns each version id once at most, returns
\* every id that is in either list, and returns the list ordered by score, greatest first
C27_Deduplicated ==
    ordered # NULL =>
        /\ \A i, j \in 1..Len(ordered) : ordered[i][1] = ordered[j][1] => i = j
        /\ {ordered[i][1] : i \in 1..Len(ordered)} = {id \in CandidateIds : keyword_ranks(id) # {} \/ vector_ranks(id) # {}}
        /\ \A i \in 1..Len(ordered) - 1 : ordered[i][2] >= ordered[i + 1][2]

\* a call whose lists share one version and hold another each: three results, the shared one neither first nor last
C27_Witness ==
    /\ ordered # NULL
    /\ Len(ordered) = 3
    /\ keyword_ranks(ordered[2][1]) # {} /\ vector_ranks(ordered[2][1]) # {}
    /\ vector_ranks(ordered[1][1]) = {} /\ keyword_ranks(ordered[3][1]) = {}
    /\ ordered[1][2] > ordered[2][2] /\ ordered[2][2] > ordered[3][2]

\* the note of a result
result_note(result) == versions[result[1]].note_id

\* the results of a page that are versions of note n
results_of(page, n) == {i \in 1..Len(page) : result_note(page[i]) = n}

\* the query reaches the note: one of its APPROVED versions holds the keyword or has a vector
matching(n, keyword, similarity) == \E v \in note_versions(versions, n) : versions[v].state = APPROVED /\ (keyword_hits(versions[v], normalized_keyword(keyword)) > 0 \/ v \in DOMAIN similarity)

\* the APPROVED version of index i of note n, if there is one
approved_at(n, i) == {v \in note_versions(versions, n) : versions[v].state = APPROVED /\ versions[v].version_index = i}

C29_DraftsFirst ==
    \A k \in Keywords, sim \in Similarities, allow_deleted \in BOOLEAN :
        LET with_drafts == search(notes, k, sim, TRUE, allow_deleted).page_slice
            without == search(notes, k, sim, FALSE, allow_deleted).page_slice
        IN  /\ \A i, j \in 1..Len(with_drafts) : result_note(with_drafts[i]) = result_note(with_drafts[j]) => i = j
            /\ \A i \in 1..Len(with_drafts) : drafts_of(result_note(with_drafts[i])) # {} => with_drafts[i][1] \in drafts_of(result_note(with_drafts[i]))
            /\ \A i \in 1..Len(without) : versions[without[i][1]].state \notin {DRAFT, NEEDS_REVIEW}

\* a search with include_drafts was answered with the draft of a note whose current version is APPROVED
\* and holds the keyword, which the draft does not
C29_Witness ==
    /\ found.total = 1
    /\ found = search(notes, "c1", <<>>, TRUE, FALSE)
    /\ versions[found.page_slice[1][1]].state = DRAFT
    /\ versions[found.page_slice[1][1]].content = "c2"
    /\ \E n \in DOMAIN notes : notes[n].current_version_id \in approved_at(n, 0) /\ drafts_of(n) = {found.page_slice[1][1]}

\* the notes with every deletion mark taken off
undeleted(ns) == [n \in DOMAIN ns |-> [ns[n] EXCEPT !.deleted_at = NULL]]

\* the step merges special review r
special_merge(r) == \E u \in Users : merge_is_special(r) /\ merge_review_precheck(r, u) = OK /\ merge_review(r, u)

\* C30: search with allow_deleted false returns no version of a note whose deleted_at is set, and with
\* allow_deleted true it returns what it would if no note were deleted; the merge of a deletion review sets
\* deleted_at, so that the note is absent from default results, and the merge of a restore review clears it,
\* so that the note can be returned again
C30_DeletedHidden ==
    /\ [](\A k \in Keywords, sim \in Similarities, include_drafts \in BOOLEAN :
            /\ \A i \in 1..search(notes, k, sim, include_drafts, FALSE).total : notes[result_note(search(notes, k, sim, include_drafts, FALSE).page_slice[i])].deleted_at = NULL
            /\ search(notes, k, sim, include_drafts, TRUE) = search(undeleted(notes), k, sim, include_drafts, FALSE))
    /\ [][\A r \in DOMAIN reviews : special_merge(r) => (notes'[reviews[r].note_id].deleted_at # NULL <=> rtype(reviews[r]) = "deletion")]_vars

\* a default search was answered with the version of a note that was deleted and restored
C30_Witness ==
    /\ found.total = 1
    /\ found = search(notes, "c1", <<>>, FALSE, FALSE)
    /\ \E r1, r2 \in DOMAIN reviews :
           /\ reviews[r1].note_id = result_note(found.page_slice[1]) /\ reviews[r1].status = MERGED /\ rtype(reviews[r1]) = "deletion"
           /\ reviews[r2].note_id = result_note(found.page_slice[1]) /\ reviews[r2].status = MERGED /\ rtype(reviews[r2]) = "restore"
    /\ \E n \in DOMAIN notes : notes[n].deleted_at = NULL

\* C31: search returns three values: the page, the total, and the facets of the candidates
C31_SearchFacets == found.total > 0 => DOMAIN found = {"page_slice", "total", "facets"}

\* ======================= hooks: notify_observers =======================
MaxWrapped == 2
MaxHooks == 2

\* the names the wrapped operations are registered under (two of the five)
EventNames == {"note.created", "note.approved"}

\* what a wrapped operation returns: a Note or a NoteVersion
Results == {"Note", "NoteVersion"}

\* the caller sees the exception of the operation
RAISED == "raised"

\* settings.webhooks: none, one hook subscribed to every event (an empty events list), or that
\* hook and one subscribed to note.approved only
HookSettings == {<<>>, <<[url |-> "u1", events |-> {}]>>, <<[url |-> "u1", events |-> {}], [url |-> "u2", events |-> {"note.approved"}]>>}

\* jsonable_encoder: the model becomes a dict of plain values
jsonable_encoder(result) == IF result = "Note" THEN "{note}" ELSE "{version}"

payload(event_name, result) == [event |-> event_name, result |-> jsonable_encoder(result)]

\* a faulty variant of wrapper_return: the caller gets what was encoded for the observers
wrapper_return_encoded(call, result) == [call EXCEPT !.pc = "done", !.result = result, !.returned = jsonable_encoder(result)]

\* return result: the caller gets what the operation gave
wrapper_return(call, result) == [call EXCEPT !.pc = "done", !.result = result, !.returned = result]

\* the task create_task is given: _notify_all over the hooks, no poster begun
notify_all(i, event_name, result) == [call |-> i, payload |-> payload(event_name, result), posts |-> [h \in DOMAIN hooks |-> "pending"]]

\* the caller awaits wrapper, which awaits the operation
wrapper_call(event_name) ==
    /\ wrapped' = Append(wrapped, [event_name |-> event_name, pc |-> "func", result |-> NULL, returned |-> NULL])
    /\ UNCHANGED <<hooks, tasks>>

\* the operation returns: wrapper runs to its return without another await
func_returns(i, result) ==
    /\ i \in DOMAIN wrapped
    /\ wrapped[i].pc = "func"
    /\ wrapped' = [wrapped EXCEPT ![i] = wrapper_return(wrapped[i], result)]
    /\ tasks' = IF hooks = <<>> THEN tasks ELSE Append(tasks, notify_all(i, wrapped[i].event_name, result))
    /\ UNCHANGED hooks

\* the operation raises: the exception leaves wrapper at its first line
func_raises(i) ==
    /\ i \in DOMAIN wrapped
    /\ wrapped[i].pc = "func"
    /\ wrapped' = [wrapped EXCEPT ![i].pc = "done", ![i].result = RAISED, ![i].returned = RAISED]
    /\ UNCHANGED <<hooks, tasks>>

\* the hook is not subscribed to the event
filtered_out(hook, event_name) == hook.events # {} /\ event_name \notin hook.events

\* _post starts in the task: it returns at the filter or awaits client.post
post(t, h) ==
    /\ t \in DOMAIN tasks
    /\ h \in DOMAIN tasks[t].posts
    /\ tasks[t].posts[h] = "pending"
    /\ tasks' = [tasks EXCEPT ![t].posts[h] = IF filtered_out(hooks[h], tasks[t].payload.event) THEN "skipped" ELSE "posting"]
    /\ UNCHANGED <<hooks, wrapped>>

\* how an awaited post ends: a 2xx answer, or an exception (an error status, a refused
\* connection, the timeout of 10 seconds) that _post logs
PostOutcomes == {"delivered", "failed", "timeout"}

posted(t, h, outcome) ==
    /\ t \in DOMAIN tasks
    /\ h \in DOMAIN tasks[t].posts
    /\ tasks[t].posts[h] = "posting"
    /\ tasks' = [tasks EXCEPT ![t].posts[h] = outcome]
    /\ UNCHANGED <<hooks, wrapped>>

InitHooks ==
    /\ notes = <<>>
    /\ versions = <<>>
    /\ reviews = <<>>
    /\ events = <<>>
    /\ version_log = <<>>
    /\ store = MEMORY
    /\ calls = <<>>
    /\ matches = NULL
    /\ ordered = NULL
    /\ found = [page_slice |-> <<>>, total |-> 0]
    /\ hooks \in HookSettings
    /\ wrapped = <<>>
    /\ tasks = <<>>
    /\ InitElastic
    /\ submits = <<>>

workflow == <<notes, versions, reviews, events, version_log, store, calls>>

NextHooks ==
    \/ \E e \in EventNames : wrapper_call(e) /\ Len(wrapped') <= MaxWrapped /\ UNCHANGED <<workflow, searches, elastic_setup, submits>>
    \/ \E i \in 1..MaxWrapped, r \in Results : func_returns(i, r) /\ UNCHANGED <<workflow, searches, elastic_setup, submits>>
    \/ \E i \in 1..MaxWrapped : func_raises(i) /\ UNCHANGED <<workflow, searches, elastic_setup, submits>>
    \/ \E t \in 1..MaxWrapped, h \in 1..MaxHooks : post(t, h) /\ UNCHANGED <<workflow, searches, elastic_setup, submits>>
    \/ \E t \in 1..MaxWrapped, h \in 1..MaxHooks, o \in PostOutcomes : posted(t, h, o) /\ UNCHANGED <<workflow, searches, elastic_setup, submits>>

SpecHooks == InitHooks /\ [][NextHooks]_vars

\* the calls a task was scheduled for
notified == {tasks[t].call : t \in DOMAIN tasks}

\* a step that schedules a task
schedule_step == Len(tasks') > Len(tasks)

\* a step of a delivery
delivery_step == Len(tasks') = Len(tasks) /\ tasks' # tasks

\* C32: a notification is scheduled only in the step in which the wrapped operation returns, for
\* that call and never for one that raised; in that step the caller gets the operation's result
\* while no delivery has begun; and no step of a delivery, failing, timed out or still awaited,
\* changes what a caller got, which is the operation's result or its exception
C32_NotifyAfterReturn ==
    /\ [](\A i \in DOMAIN wrapped : /\ (i \in notified => wrapped[i].pc = "done" /\ wrapped[i].result \in Results)
                                    /\ (wrapped[i].pc = "done" => wrapped[i].returned = wrapped[i].result))
    /\ [][/\ schedule_step => \E i \in DOMAIN wrapped : /\ wrapped[i].pc = "func"
                                                        /\ wrapped'[i].pc = "done"
                                                        /\ wrapped'[i].returned \in Results
                                                        /\ tasks' = Append(tasks, tasks'[Len(tasks')])
                                                        /\ tasks'[Len(tasks')].call = i
                                                        /\ \A h \in DOMAIN hooks : tasks'[Len(tasks')].posts[h] = "pending"
          /\ delivery_step => wrapped' = wrapped
          /\ \A i \in DOMAIN wrapped : wrapped[i].pc = "done" => wrapped'[i] = wrapped[i]]_vars

\* a call has returned its result while one delivery of its task has failed and another is
\* still awaited, and a call that raised has no task
C32_Witness ==
    /\ \E t \in DOMAIN tasks : /\ wrapped[tasks[t].call].returned \in Results
                               /\ \E h \in DOMAIN tasks[t].posts : tasks[t].posts[h] \in {"failed", "timeout"}
                               /\ \E h \in DOMAIN tasks[t].posts : tasks[t].posts[h] = "posting"
    /\ \E i \in DOMAIN wrapped : wrapped[i].returned = RAISED /\ i \notin notified

\* ======================= ElasticsearchNotesRepository._ensure_indices =======================
MaxEnsuring == 3

\* a faulty variant of ready_checked: the caller returns without looking at the flag
ready_checked_skipped(ready) == TRUE

\* if self._indices_ready: return
ready_checked(ready) == ready

\* an operation of the repository awaits _ensure_indices: the first check runs at once
ensure_indices_call ==
    /\ ensuring' = Append(ensuring, [pc |-> IF ready_checked(indices_ready) THEN "returned" ELSE "lock", k |-> 0])
    /\ UNCHANGED <<indices_ready, indices_lock, indices>>

\* async with self._indices_lock: the caller gets the lock, checks again, and asks for the first index
lock_acquired(c) ==
    /\ c \in DOMAIN ensuring
    /\ ensuring[c].pc = "lock"
    /\ indices_lock = NoCaller
    /\ IF ready_checked(indices_ready)
       THEN /\ ensuring' = [ensuring EXCEPT ![c].pc = "returned"]
            /\ UNCHANGED <<indices_ready, indices_lock, indices>>
       ELSE /\ ensuring' = [ensuring EXCEPT ![c].pc = "exists", ![c].k = 1]
            /\ indices_lock' = c
            /\ UNCHANGED <<indices_ready, indices>>

\* the caller is done with index k: it asks for the next one, or sets the flag, leaves the lock and returns
index_done(c) ==
    IF ensuring[c].k = Len(IndexNames)
    THEN /\ ensuring' = [ensuring EXCEPT ![c].pc = "returned"]
         /\ indices_ready' = TRUE
         /\ indices_lock' = NoCaller
    ELSE /\ ensuring' = [ensuring EXCEPT ![c].pc = "exists", ![c].k = @ + 1]
         /\ UNCHANGED <<indices_ready, indices_lock>>

\* client.indices.exists answers
exists_answered(c) ==
    /\ c \in DOMAIN ensuring
    /\ ensuring[c].pc = "exists"
    /\ IF indices[ensuring[c].k] # {}
       THEN index_done(c)
       ELSE /\ ensuring' = [ensuring EXCEPT ![c].pc = "create"]
            /\ UNCHANGED <<indices_ready, indices_lock>>
    /\ UNCHANGED indices

\* client.indices.create answers: the index is made, or the cluster refuses because it exists
create_answered(c) ==
    /\ c \in DOMAIN ensuring
    /\ ensuring[c].pc = "create"
    /\ IF indices[ensuring[c].k] = {}
       THEN /\ indices' = [indices EXCEPT ![ensuring[c].k] = {c}]
            /\ index_done(c)
       ELSE /\ ensuring' = [ensuring EXCEPT ![c].pc = "raised"]
            /\ indices_lock' = NoCaller
            /\ UNCHANGED <<indices_ready, indices>>

\* a client call raises (the connection fails or times out): the exception leaves the lock and
\* the caller; a create that reached the cluster may have made the index all the same
client_raised(c, reached) ==
    /\ c \in DOMAIN ensuring
    /\ ensuring[c].pc \in {"exists", "create"}
    /\ ensuring' = [ensuring EXCEPT ![c].pc = "raised"]
    /\ indices_lock' = NoCaller
    /\ indices' = IF reached /\ ensuring[c].pc = "create" /\ indices[ensuring[c].k] = {} THEN [indices EXCEPT ![ensuring[c].k] = {c}] ELSE indices
    /\ UNCHANGED indices_ready

InitEnsure ==
    /\ notes = <<>>
    /\ versions = <<>>
    /\ reviews = <<>>
    /\ events = <<>>
    /\ version_log = <<>>
    /\ store = ELASTIC
    /\ calls = <<>>
    /\ matches = NULL
    /\ ordered = NULL
    /\ found = [page_slice |-> <<>>, total |-> 0]
    /\ hooks = <<>>
    /\ wrapped = <<>>
    /\ tasks = <<>>
    /\ InitElastic
    /\ submits = <<>>

NextEnsure ==
    \/ ensure_indices_call /\ Len(ensuring') <= MaxEnsuring /\ UNCHANGED <<workflow, searches, observers, submits>>
    \/ \E c \in 1..MaxEnsuring : lock_acquired(c) /\ UNCHANGED <<workflow, searches, observers, submits>>
    \/ \E c \in 1..MaxEnsuring : exists_answered(c) /\ UNCHANGED <<workflow, searches, observers, submits>>
    \/ \E c \in 1..MaxEnsuring : create_answered(c) /\ UNCHANGED <<workflow, searches, observers, submits>>
    \/ \E c \in 1..MaxEnsuring, reached \in BOOLEAN : client_raised(c, reached) /\ UNCHANGED <<workflow, searches, observers, submits>>

SpecEnsure == InitEnsure /\ [][NextEnsure]_vars

\* C33: each index was created by at most one caller, and every caller that has returned from
\* _ensure_indices found or left _indices_ready true (with all four indices in place)
C33_IndicesOnce ==
    /\ \A k \in DOMAIN indices : Cardinality(indices[k]) <= 1
    /\ \A c \in DOMAIN ensuring : ensuring[c].pc = "returned" => indices_ready /\ \A k \in DOMAIN indices : indices[k] # {}

\* three callers overlapped before the flag was set: one raised after creating some indices,
\* one created the rest and set the flag, one waited for the lock and returned at the second check
C33_Witness ==
    /\ \E c \in DOMAIN ensuring : ensuring[c].pc = "raised" /\ \E k \in DOMAIN indices : indices[k] = {c}
    /\ \E c \in DOMAIN ensuring : ensuring[c].pc = "returned" /\ \E k \in DOMAIN indices : indices[k] = {c}
    /\ \E c \in DOMAIN ensuring : ensuring[c].pc = "returned" /\ \A k \in DOMAIN indices : indices[k] # {c}
    /\ \A k \in DOMAIN indices : indices[k] # {}

\* ======================= submit_version_for_review calls that overlap =======================
MaxSubmits == 2

\* the variables a submit call leaves alone
beside_submits == <<searches, observers, elastic_setup, store, calls, notes, version_log>>

new_submit(version_id, submitter_id, pc) == [version_id |-> version_id, submitter_id |-> submitter_id, pc |-> pc, base_version_id |-> NoId, existing |-> NoId, review_id |-> NoId]

\* submit_for_review up to its update: get_version answers and the state is tested. The
\* in-memory repository never gives way inside a call; over it the whole call runs at once.
submit_begin(version_id, submitter_id) ==
    LET review_id == review_for_version(version_id)
    IN  IF store = MEMORY /\ submit_for_review_result(version_id) = OK
        THEN /\ versions' = submitted_versions(versions, version_id, submitter_id)
             /\ reviews' = IF review_id \in DOMAIN reviews THEN [reviews EXCEPT ![review_id] = resubmitted_review(@, versions[version_id].title, submit_base_version_id(version_id), NULL)]
                           ELSE reviews @@ (review_id :> new_review(versions[version_id].note_id, version_id, submit_base_version_id(version_id), versions[version_id].title, submitter_id, <<>>, NULL))
             /\ events' = IF review_id \in DOMAIN reviews THEN add_review_event(events, review_id, SUBMITTED, submitter_id)
                          ELSE events @@ (review_id :> <<new_event(SUBMITTED, submitter_id)>>)
             /\ submits' = Append(submits, [new_submit(version_id, submitter_id, OK) EXCEPT !.review_id = review_id])
             /\ UNCHANGED beside_submits
        ELSE /\ submits' = Append(submits, new_submit(version_id, submitter_id, IF submit_for_review_result(version_id) # OK THEN submit_for_review_result(version_id) ELSE "update_version"))
             /\ UNCHANGED <<versions, reviews, events, beside_submits>>

\* await self.repository.update_version(version_id, updates)
submit_update_version(i) ==
    /\ submits[i].pc = "update_version"
    /\ IF submits[i].version_id \notin DOMAIN versions
       THEN /\ submits' = [submits EXCEPT ![i].pc = HTTP_404_NOT_FOUND]
            /\ UNCHANGED versions
       ELSE /\ versions' = submitted_versions(versions, submits[i].version_id, submits[i].submitter_id)
            /\ submits' = [submits EXCEPT ![i].pc = "get_note_metadata"]
    /\ UNCHANGED <<reviews, events, beside_submits>>

\* await self.notes_service.get_note_metadata(version.note_id), and base_version_id from it
submit_get_note_metadata(i) ==
    /\ submits[i].pc = "get_note_metadata"
    /\ submits' = [submits EXCEPT ![i].pc = "get_review_by_version", ![i].base_version_id = submit_base_version_id(submits[i].version_id)]
    /\ UNCHANGED <<versions, reviews, events, beside_submits>>

\* existing = await self.repository.get_review_by_version(version.id)
submit_get_review_by_version(i) ==
    /\ submits[i].pc = "get_review_by_version"
    /\ submits' = [submits EXCEPT ![i].pc = "write_review", ![i].existing = get_review_by_version(submits[i].version_id)]
    /\ UNCHANGED <<versions, reviews, events, beside_submits>>

\* update_review on the review found before, or create_review when none was found
submit_write_review(i) ==
    LET call == submits[i]
        version == versions[call.version_id]
        review_id == IF call.existing # NoId THEN call.existing ELSE Cardinality(DOMAIN reviews) + 1
    IN  /\ call.pc = "write_review"
        /\ reviews' = IF call.existing # NoId THEN [reviews EXCEPT ![review_id] = resubmitted_review(@, version.title, call.base_version_id, NULL)]
                      ELSE reviews @@ (review_id :> new_review(version.note_id, call.version_id, call.base_version_id, version.title, call.submitter_id, <<>>, NULL))
        /\ events' = IF call.existing # NoId THEN events ELSE events @@ (review_id :> <<>>)
        /\ submits' = [submits EXCEPT ![i].pc = "add_review_event", ![i].review_id = review_id]
        /\ UNCHANGED <<versions, beside_submits>>

\* add_review_event(SUBMITTED), then the review is read back and returned
submit_add_review_event(i) ==
    /\ submits[i].pc = "add_review_event"
    /\ events' = add_review_event(events, submits[i].review_id, SUBMITTED, submits[i].submitter_id)
    /\ submits' = [submits EXCEPT ![i].pc = OK]
    /\ UNCHANGED <<versions, reviews, beside_submits>>

InitSubmits ==
    /\ notes = <<>>
    /\ versions = <<>>
    /\ reviews = <<>>
    /\ events = <<>>
    /\ version_log = <<>>
    /\ store \in Stores
    /\ calls = <<>>
    /\ matches = NULL
    /\ ordered = NULL
    /\ found = [page_slice |-> <<>>, total |-> 0]
    /\ InitOthers

NextSubmits ==
    \/ \E u \in NoteAuthors : create_note(u, "t1", "c1", "[a]") /\ Bounded(MaxVersions)
    \/ \E v \in DOMAIN versions, u \in Users : submit_begin(v, u) /\ Len(submits') <= MaxSubmits
    \/ \E i \in DOMAIN submits : submit_update_version(i)
    \/ \E i \in DOMAIN submits : submit_get_note_metadata(i)
    \/ \E i \in DOMAIN submits : submit_get_review_by_version(i)
    \/ \E i \in DOMAIN submits : submit_write_review(i)
    \/ \E i \in DOMAIN submits : submit_add_review_event(i)

SpecSubmits == InitSubmits /\ [][NextSubmits]_vars

\* the reviews of a draft version
reviews_of(version_id) == {r \in DOMAIN reviews : reviews[r].draft_version_id = version_id}

\* C34: however submit_version_for_review calls for one DRAFT version interleave, the version
\* has at most one review
C34_OneReviewPerDraft == \A v \in DOMAIN versions : Cardinality(reviews_of(v)) <= 1

\* ======================= the review workflow as a whole =======================

\* the state of the review's draft version, NULL when the version is gone
draft_state(r) == IF reviews[r].draft_version_id \in DOMAIN versions THEN versions[reviews[r].draft_version_id].state ELSE NULL

\* C35: an ordinary review that is OPEN has its draft version in NEEDS_REVIEW, and one that is
\* CHANGES_REQUESTED or CLOSED has its draft version in another state
C35_StatusMatchesState ==
    \A r \in DOMAIN reviews : ordinary(r) => /\ reviews[r].status = OPEN => draft_state(r) = NEEDS_REVIEW
                                             /\ reviews[r].status \in {CHANGES_REQUESTED, CLOSED} => draft_state(r) # NEEDS_REVIEW

\* C36: a merge_review call that returns an error leaves the reviews, the notes, the versions
\* and the timelines as they were
C36_FailedMergeChangesNothing ==
    [][\A r \in DOMAIN reviews, u \in Users : (merge_review_result(r, u) # OK /\ merge_review(r, u)) => UNCHANGED <<reviews, notes, versions, events>>]_vars

\* C37: a review becomes MERGED only from OPEN
C37_MergedFromOpen ==
    [][\A r \in DOMAIN reviews : (reviews[r].status # MERGED /\ reviews'[r].status = MERGED) => reviews[r].status = OPEN]_vars

\* C38: a merge_review that succeeds on an ordinary review is called by someone other than the
\* one the draft version was created by
C38_NotOwnDraft ==
    [][\A r \in DOMAIN reviews, u \in Users : (ordinary(r) /\ merge_review_result(r, u) = OK /\ merge_review(r, u)) => u # versions[reviews[r].draft_version_id].created_by]_vars

\* C39: the draft version of every OPEN or CHANGES_REQUESTED ordinary review exists
C39_ActiveDraftExists == \A r \in DOMAIN reviews : (active(r) /\ ordinary(r)) => reviews[r].draft_version_id \in DOMAIN versions

\* the positions of the MERGED events of a timeline
merged_at(r) == {i \in DOMAIN events[r] : events[r][i].event_type = MERGED}

\* C40: the timeline of every review starts with SUBMITTED, has at most one MERGED event, and
\* has only COMMENT events after it
C40_TimelineShape ==
    \A r \in DOMAIN reviews : /\ events[r] # <<>> /\ events[r][1].event_type = SUBMITTED
                              /\ Cardinality(merged_at(r)) <= 1
                              /\ \A i \in merged_at(r), j \in DOMAIN events[r] : j > i => events[r][j].event_type = COMMENT

\* a special review was merged and commented on afterwards; its timeline is SUBMITTED, MERGED, COMMENT
C40_Witness == \E r \in DOMAIN reviews : ~ordinary(r) /\ events[r] = <<new_event(SUBMITTED, NULL), new_event(MERGED, NULL), new_event(COMMENT, NULL)>>

====
